---------------------------- MODULE Spec2Model ----------------------------
(***************************************************************************)
(* A model of github.com/alecthomas/repr (repr.go): the Printer, its       *)
(* options, and the recursive renderer reprValue with its cycle set.       *)
(*                                                                         *)
(* Go values live in a small heap.  A reflect.Value is the triple the Go   *)
(* runtime compares when it is used as a map key in `seen`: its type, its  *)
(* data pointer and its flag word (here the bits indir, read-only and      *)
(* addressable).  Output is the sequence of writes made to p.w; Flat joins *)
(* them into the byte string the sink holds.                               *)
(***************************************************************************)
EXTENDS Integers, Sequences, FiniteSets, TLC

(***************************************************************************)
(* Bounds of the model.                                                    *)
(***************************************************************************)
\* Longest option list a caller passes to String.
MaxOpts == 2
\* Most values a caller passes to one call of Print or Println.
MaxVals == 2
\* Most calls of Print and Println made on one Printer.
MaxCalls == 2
\* Deepest chain of nested reprValue calls before the Go stack is taken to
\* be exhausted.  No legitimate rendering of the inputs below comes near it.
MaxDepth == 14

(***************************************************************************)
(* Types (reflect.Type).  A type is a record; struct types are named and   *)
(* their fields are looked up by name so that a type may refer to itself.  *)
(***************************************************************************)
TInvalid == [kind |-> "invalid", name |-> ""]
TInt     == [kind |-> "int", name |-> "int"]
TString  == [kind |-> "string", name |-> "string"]
TUint8   == [kind |-> "uint8", name |-> "uint8"]
TInt64   == [kind |-> "int64", name |-> "int64"]
anyType  == [kind |-> "interface", name |-> ""]
TTime    == [kind |-> "struct", name |-> "time.Time"]
PtrTo(t)      == [kind |-> "ptr", name |-> "", elem |-> t]
SliceOf(t)    == [kind |-> "slice", name |-> "", elem |-> t]
ArrayOf(n, t) == [kind |-> "array", name |-> "", elem |-> t, len |-> n]
MapOf(k, t)   == [kind |-> "map", name |-> "", key |-> k, elem |-> t]
\* A channel type of direction dir ("chan", "<-chan" or "chan<-"), and a
\* function type with the parameter types in and the result types out.  Of
\* a function type, variadic says that the last parameter, a slice, is
\* declared with "...", and short is t.Name(), the name without the package
\* (name is the name with it, both empty for a type that is not named).
ChanOf(dir, t) == [kind |-> "chan", name |-> "", dir |-> dir, elem |-> t]
FuncOf(in, out) ==
  [kind |-> "func", name |-> "", short |-> "", in |-> in, out |-> out,
   variadic |-> FALSE]
StructT(nm)   == [kind |-> "struct", name |-> nm]
\* type Bytes []byte : a named slice type over byte
TBytes   == [kind |-> "slice", name |-> "repr.Bytes", elem |-> TUint8]
\* type Enum int, with func (e Enum) String() string { return "Value" }
TEnum    == [kind |-> "int", name |-> "repr.Enum"]
\* time.Duration, an int64 with a String method
TDuration == [kind |-> "int64", name |-> "time.Duration"]

TData == StructT("repr.data")
TLeaf == StructT("repr.leaf")
TRec  == StructT("repr.rec")
TBox  == StructT("repr.box")
TStructA  == StructT("internal.StructA")

Fld(n, t, x) == [name |-> n, typ |-> t, exported |-> x]

\* The struct types of the inputs:
\*   type data struct { id int; parent *data; children []*data }
\*   type leaf struct { A int; b string }
\*   type rec  struct { A int; P *int; S []int; M map[string]int; B string }
\*   type box  struct { L leaf; P *leaf; I any; M map[string]int; Z []leaf }
\*   type stamp struct { A int; T *time.Time }
\*   type StructA struct { String1 string; string2 string;
\*                         Time1 time.Time; time2 time.Time }
\* and time.Time itself, struct { wall uint64; ext int64; loc *Location }.
StructFields(nm) ==
  CASE nm = "repr.data" -> << Fld("id", TInt, FALSE),
                              Fld("parent", PtrTo(TData), FALSE),
                              Fld("children", SliceOf(PtrTo(TData)), FALSE) >>
    [] nm = "repr.leaf" -> << Fld("A", TInt, TRUE), Fld("b", TString, FALSE) >>
    [] nm = "repr.rec"  -> << Fld("A", TInt, TRUE),
                              Fld("P", PtrTo(TInt), TRUE),
                              Fld("S", SliceOf(TInt), TRUE),
                              Fld("M", MapOf(TString, TInt), TRUE),
                              Fld("B", TString, TRUE) >>
    [] nm = "repr.box"  -> << Fld("L", TLeaf, TRUE),
                              Fld("P", PtrTo(TLeaf), TRUE),
                              Fld("I", anyType, TRUE),
                              Fld("M", MapOf(TString, TInt), TRUE),
                              Fld("Z", SliceOf(TLeaf), TRUE) >>
    [] nm = "repr.stamp" -> << Fld("A", TInt, TRUE), Fld("T", PtrTo(TTime), TRUE) >>
    [] nm = "internal.StructA" -> << Fld("String1", TString, TRUE),
                                     Fld("string2", TString, FALSE),
                                     Fld("Time1", TTime, TRUE),
                                     Fld("time2", TTime, FALSE) >>
    [] nm = "time.Time" -> << Fld("wall", [kind |-> "uint64", name |-> "uint64"], FALSE),
                              Fld("ext", TInt64, FALSE),
                              Fld("loc", PtrTo(StructT("time.Location")), FALSE) >>
    [] OTHER -> << >>

\* reflect.Type.String(): []byte prints as []uint8, any as interface {}.
RECURSIVE TypeString(_)
TypeString(t) ==
  LET RECURSIVE join(_, _)
      \* the types ts separated by ", "; dots: the last one is variadic
      join(ts, dots) ==
        IF ts = << >> THEN ""
        ELSE IF Len(ts) = 1
        THEN (IF dots THEN "..." \o TypeString(ts[1].elem) ELSE TypeString(ts[1]))
        ELSE TypeString(Head(ts)) \o ", " \o join(Tail(ts), dots)
  IN
  IF t.name # "" THEN t.name
  ELSE CASE t.kind = "ptr"       -> "*" \o TypeString(t.elem)
         [] t.kind = "chan"      ->
              \* a channel of receive-only channels is written chan (<-chan T)
              IF t.dir = "chan" /\ t.elem.kind = "chan" /\ t.elem.name = ""
                 /\ t.elem.dir = "<-chan"
              THEN "chan (" \o TypeString(t.elem) \o ")"
              ELSE t.dir \o " " \o TypeString(t.elem)
         [] t.kind = "func"      ->
              "func(" \o join(t.in, t.variadic) \o ")"
                \o (IF Len(t.out) = 0 THEN ""
                    ELSE IF Len(t.out) = 1 THEN " " \o TypeString(t.out[1])
                    ELSE " (" \o join(t.out, FALSE) \o ")")
         [] t.kind = "slice"     -> "[]" \o TypeString(t.elem)
         [] t.kind = "array"     -> "[" \o ToString(t.len) \o "]" \o TypeString(t.elem)
         [] t.kind = "map"       -> "map[" \o TypeString(t.key) \o "]" \o TypeString(t.elem)
         [] t.kind = "interface" -> "interface {}"
         [] OTHER                -> "invalid"

\* substAny: the type's text with "interface {}" replaced by "any".
RECURSIVE substAny(_)
substAny(t) ==
  LET RECURSIVE join(_)
      \* strings.Join of the substAny of the types ts, with ", "
      join(ts) == IF ts = << >> THEN ""
                  ELSE substAny(Head(ts)) \o (IF Len(ts) > 1 THEN ", " ELSE "")
                         \o join(Tail(ts))
  IN
  CASE t.kind = "array" -> "[" \o ToString(t.len) \o "]" \o substAny(t.elem)
    [] t.kind = "slice" -> "[]" \o substAny(t.elem)
    [] t.kind = "map"   -> "map[" \o substAny(t.key) \o "]" \o substAny(t.elem)
    [] t.kind = "chan"  -> t.dir \o " " \o substAny(t.elem)
    [] t.kind = "func"  ->
         "func" \o t.short \o "(" \o join(t.in) \o ")"
           \o (IF Len(t.out) = 0 THEN "" ELSE " (" \o join(t.out) \o ")")
    [] OTHER            -> IF t = anyType THEN "any" ELSE TypeString(t)

\* realKindName[t.Kind()]
realKindName(k) ==
  CASE k \in {"int", "string", "bool", "uint8", "int64", "uint64", "array", "chan",
               "func", "map", "slice"} -> k
    [] OTHER -> ""

byteSliceType == SliceOf(TUint8)

\* The method set of type t, as far as repr.go and fmt ask for it: time.Time
\* has GoString, String and IsZero, Enum and time.Duration have String, and
\* the methods of a type are methods of the pointer to it.
Methods(t) ==
  LET of(nm) == CASE nm = "time.Time" -> {"GoString", "String", "IsZero"}
                  [] nm \in {"repr.Enum", "time.Duration"} -> {"String"}
                  [] OTHER -> {}
  IN IF t.kind = "ptr" /\ t.name = "" THEN of(t.elem.name) ELSE of(t.name)
\* t.Implements(isZeroerType)
ImplementsIsZeroer(t) == "IsZero" \in Methods(t)
\* t.Implements(goStringerType)
ImplementsGoStringer(t) == "GoString" \in Methods(t)

(***************************************************************************)
(* Stored values.  An address is a sequence: the number of a heap object   *)
(* followed by the path of field and element indexes inside it (1-based).  *)
(* Object 0 is the box of the interface value passed to Print.  The empty  *)
(* address is nil.                                                         *)
(***************************************************************************)
NilAddr == << >>
CInt(n)       == [c |-> "int", n |-> n]
\* An int64 too wide for one number of the model: hi * 100 + lo, lo < 100.
CInt64(hi, lo) == [c |-> "int64", hi |-> hi, lo |-> lo]
CStr(s)       == [c |-> "str", s |-> s]
CPtr(a)       == [c |-> "ptr", to |-> a]
CSlice(a, n)  == [c |-> "slice", base |-> a, len |-> n]
CArr(e)       == [c |-> "array", e |-> e]
CStruct(f)    == [c |-> "struct", f |-> f]
CMap(a)       == [c |-> "map", m |-> a]
CMapObj(kv)   == [c |-> "mapobj", kv |-> kv]
CIface(t, v)  == [c |-> "iface", dt |-> t, dv |-> v]
CNilIface     == [c |-> "iface", dt |-> TInvalid, dv |-> [c |-> "none"]]
KV(k, v)      == [k |-> k, v |-> v]

\* A *time.Location: which pointer it is, the name of the location
\* (loc.name), and the zone (abbreviation, offset) in effect at the instant.
\* The two names are Go strings.
Loc(id, place, nm, off) == [id |-> id, place |-> place, name |-> nm, off |-> off]
UTCLoc == Loc("utc", <<85, 84, 67>>, <<85, 84, 67>>, 0)
\* A time.Time: an instant (UTC calendar day and second of that day) and a
\* location.  zero marks the zero instant, January 1, year 1, 00:00 UTC.
CTime(zero, y, m, d, sod, ns, loc) ==
  [c |-> "time", zero |-> zero, y |-> y, m |-> m, d |-> d, sod |-> sod,
   ns |-> ns, loc |-> loc]

\* The days from January 1 of year 1 to the UTC calendar day of time c.
AbsDays(c) ==
  LET daysBefore == << 0, 31, 59, 90, 120, 151, 181, 212, 243, 273, 304, 334 >>
      isLeap == c.y % 4 = 0 /\ (c.y % 100 # 0 \/ c.y % 400 = 0)
  IN 365 * (c.y - 1) + ((c.y - 1) \div 4) - ((c.y - 1) \div 100) + ((c.y - 1) \div 400)
     + daysBefore[c.m] + (IF c.m > 2 /\ isLeap THEN 1 ELSE 0) + (c.d - 1)
\* The fields of a time.Time that carries no monotonic reading: wall is the
\* nanosecond, ext the seconds since January 1 of year 1 (86400 a day), and
\* loc is nil for UTC.
TimeField(c, i) ==
  CASE i = 1 -> CInt(c.ns)
    [] i = 2 -> CInt64(AbsDays(c) * 864 + (c.sod \div 100), c.sod % 100)
    [] i = 3 /\ c.loc.id \in {"utc", "nil"} -> CPtr(NilAddr)

RECURSIVE Navigate(_, _)
Navigate(c, path) ==
  IF path = << >> THEN c
  ELSE LET i == Head(path) rest == Tail(path) IN
       CASE c.c = "struct" -> Navigate(c.f[i], rest)
         [] c.c = "array"  -> Navigate(c.e[i], rest)
         [] c.c = "iface"  -> Navigate(c.dv, rest)
         [] c.c = "mapobj" -> Navigate(IF Head(rest) = 1 THEN c.kv[i].k ELSE c.kv[i].v,
                                       Tail(rest))
         \* the unexported fields of a time.Time: wall, ext, loc
         [] c.c = "time"   -> Navigate(TimeField(c, i), rest)

\* The content stored at address a of heap h.  An address that starts with
\* a negative number -n is the n-th copy reflect made of a map key or value
\* (copyVal): it holds what the rest of the address holds.
Load(h, a) ==
  LET b == IF Head(a) < 0 THEN Tail(a) ELSE a IN
  IF Head(b) = 0 THEN Navigate(h.root.c, Tail(b))
  ELSE Navigate(h.objs[Head(b)], Tail(b))

(***************************************************************************)
(* reflect.Value and the operations repr.go calls on it.                   *)
(***************************************************************************)
RV(t, ptr, ind, ro, addr) ==
  [typ |-> t, ptr |-> ptr, ind |-> ind, ro |-> ro, addr |-> addr]
InvalidValue == RV(TInvalid, NilAddr, FALSE, FALSE, FALSE)

RECURSIVE PointerShaped(_)
\* Types whose values are a single pointer word: stored directly in an
\* interface and in a reflect.Value (no flagIndir).  A one-element array and
\* a one-field struct of such a type are such types too.
PointerShaped(t) ==
  CASE t.kind \in {"ptr", "map", "chan", "func"} -> TRUE
    [] t.kind = "array"  -> t.len = 1 /\ PointerShaped(t.elem)
    [] t.kind = "struct" -> /\ Len(StructFields(t.name)) = 1
                            /\ PointerShaped(StructFields(t.name)[1].typ)
    [] OTHER -> FALSE

RECURSIVE Word(_, _)
\* The pointer word that is the content c of the pointer-shaped type t.
Word(t, c) ==
  CASE t.kind = "ptr"    -> c.to
    [] t.kind = "map"    -> c.m
    [] t.kind = "array"  -> Word(t.elem, c.e[1])
    [] t.kind = "struct" -> Word(StructFields(t.name)[1].typ, c.f[1])
    [] OTHER             -> c.at

RECURSIVE FromWord(_, _)
\* The content of the pointer-shaped type t whose pointer word is a.
FromWord(t, a) ==
  CASE t.kind = "ptr"    -> CPtr(a)
    [] t.kind = "map"    -> CMap(a)
    [] t.kind = "array"  -> CArr(<< FromWord(t.elem, a) >>)
    [] t.kind = "struct" -> CStruct(<< FromWord(StructFields(t.name)[1].typ, a) >>)
    [] OTHER             -> [c |-> t.kind, at |-> a]

Kind(v) == v.typ.kind
CanInterface(v) == ~v.ro
CanAddr(v) == v.addr

\* The content a Value holds.
Content(h, v) == IF v.ind THEN Load(h, v.ptr) ELSE FromWord(v.typ, v.ptr)

\* reflect.ValueOf(x) for the interface value x = h.root.
ValueOf(h) ==
  LET t == h.root.typ c == h.root.c IN
  IF t = TInvalid THEN InvalidValue
  ELSE IF PointerShaped(t) THEN RV(t, Word(t, c), FALSE, FALSE, FALSE)
       ELSE RV(t, <<0>>, TRUE, FALSE, FALSE)

IsNil(h, v) ==
  LET c == Content(h, v) IN
  CASE Kind(v) = "ptr"       -> c.to = NilAddr
    [] Kind(v) = "map"       -> c.m = NilAddr
    [] Kind(v) \in {"chan", "func"} -> c.at = NilAddr
    [] Kind(v) = "slice"     -> c.base = NilAddr
    [] Kind(v) = "interface" -> c.dt = TInvalid
    [] OTHER                 -> FALSE

\* v.Len() of a slice, array or map.
VLen(h, v) ==
  LET c == Content(h, v) IN
  CASE Kind(v) = "slice" -> c.len
    [] Kind(v) = "array" -> v.typ.len
    [] Kind(v) = "map"   -> IF c.m = NilAddr THEN 0 ELSE Len(Load(h, c.m).kv)
    [] OTHER             -> 0

\* v.Elem() of a pointer or of an interface.  An interface holds a data
\* word: the pointer-shaped value itself, or a pointer to the boxed value,
\* which a copy of the interface (copyVal) shares with the original; the
\* box is addressed as element 0 of the place where the interface is
\* stored.
Elem(h, v) ==
  LET c == Content(h, v) IN
  IF Kind(v) = "ptr"
  THEN IF c.to = NilAddr THEN InvalidValue
       ELSE RV(v.typ.elem, c.to, TRUE, v.ro, TRUE)
  ELSE IF c.dt = TInvalid THEN InvalidValue
       ELSE IF PointerShaped(c.dt)
            THEN RV(c.dt, Word(c.dt, c.dv), FALSE, v.ro, FALSE)
            ELSE RV(c.dt, (IF Head(v.ptr) < 0 THEN Tail(v.ptr) ELSE v.ptr) \o <<0>>,
                    TRUE, v.ro, FALSE)

\* v.Index(i), i counted from 1.  An element of an array takes flagIndir
\* and flagAddr from the array; the element of an array held as a pointer
\* word is that word.
Index(h, v, i) ==
  IF Kind(v) = "slice"
  THEN RV(v.typ.elem, Content(h, v).base \o <<i>>, TRUE, v.ro, TRUE)
  ELSE IF v.ind THEN RV(v.typ.elem, v.ptr \o <<i>>, TRUE, v.ro, v.addr)
  ELSE RV(v.typ.elem, v.ptr, FALSE, v.ro, v.addr)

NumField(v) == Len(StructFields(v.typ.name))
\* v.Type().Field(i)
TypeField(v, i) == StructFields(v.typ.name)[i]
\* v.Field(i): an unexported field is read-only, and so is every field of a
\* read-only struct.
Field(v, i) ==
  LET f == TypeField(v, i) IN
  RV(f.typ, IF v.ind THEN v.ptr \o <<i>> ELSE v.ptr, v.ind,
     v.ro \/ ~f.exported, v.addr)

\* copyVal: the i-th key (part = 1) or value (part = 2) of map v, copied
\* out.  A pointer-shaped key or value is its word; any other is copied to
\* fresh memory, the n-th copy of the rendering.
MapPart(h, v, i, part, n) ==
  LET m == Content(h, v).m
      t == IF part = 1 THEN v.typ.key ELSE v.typ.elem
      c == Load(h, m \o <<i, part>>) IN
  IF PointerShaped(t) THEN RV(t, Word(t, c), FALSE, v.ro, FALSE)
  ELSE RV(t, <<-n>> \o m \o <<i, part>>, TRUE, v.ro, FALSE)

\* reflect.NewAt(t, unsafe.Pointer(v.UnsafeAddr())).Elem()
NewAtElem(v) == RV(v.typ, v.ptr, TRUE, FALSE, TRUE)

RECURSIVE ContentIsZero(_, _)
\* v.IsZero() on the stored content c of type t.
ContentIsZero(t, c) ==
  CASE c.c = "int"    -> c.n = 0
    [] c.c = "int64"  -> c.hi = 0 /\ c.lo = 0
    [] c.c = "str"    -> c.s = << >>
    [] c.c = "bool"   -> ~c.b
    [] c.c = "ptr"    -> c.to = NilAddr
    [] c.c = "slice"  -> c.base = NilAddr
    [] c.c = "map"    -> c.m = NilAddr
    [] c.c \in {"chan", "func"} -> c.at = NilAddr
    [] c.c = "iface"  -> c.dt = TInvalid
    [] c.c = "time"   -> c.zero /\ c.loc.id = "utc"
    [] c.c = "array"  -> \A i \in 1..Len(c.e) : ContentIsZero(t.elem, c.e[i])
    [] c.c = "struct" -> \A i \in 1..Len(c.f) :
                            ContentIsZero(StructFields(t.name)[i].typ, c.f[i])
    [] OTHER          -> FALSE
IsZero(h, v) == ContentIsZero(v.typ, Content(h, v))

(***************************************************************************)
(* Text.  A Go string or []byte is a sequence of byte values; what is      *)
(* written to the sink is a TLA+ string.                                   *)
(***************************************************************************)
\* The printable ASCII characters from the space (byte 32) to the tilde
\* (byte 126).  The place of the grave accent (byte 96), which a string of
\* the model cannot hold, is empty.
ascii ==
  << " ", "!", "\"", "#", "$", "%", "&", "'", "(", ")", "*", "+",
     ",", "-", ".", "/", "0", "1", "2", "3", "4", "5", "6", "7",
     "8", "9", ":", ";", "<", "=", ">", "?", "@", "A", "B", "C",
     "D", "E", "F", "G", "H", "I", "J", "K", "L", "M", "N", "O",
     "P", "Q", "R", "S", "T", "U", "V", "W", "X", "Y", "Z", "[",
     "\\", "]", "^", "_", "", "a", "b", "c", "d", "e", "f", "g",
     "h", "i", "j", "k", "l", "m", "n", "o", "p", "q", "r", "s",
     "t", "u", "v", "w", "x", "y", "z", "{", "|", "}", "~" >>
\* The character with the code point r: printable ASCII but the grave
\* accent, tab, line feed, form feed, carriage return, delete, and the
\* characters of Latin-1 from U+00A1 to U+00FF.
Chr(r) ==
  LET latin1 ==
        << "¡", "¢", "£", "¤", "¥", "¦", "§", "¨", "©", "ª", "«", "¬",
           "­", "®", "¯", "°", "±", "²", "³", "´", "µ", "¶", "·", "¸",
           "¹", "º", "»", "¼", "½", "¾", "¿", "À", "Á", "Â", "Ã", "Ä",
           "Å", "Æ", "Ç", "È", "É", "Ê", "Ë", "Ì", "Í", "Î", "Ï", "Ð",
           "Ñ", "Ò", "Ó", "Ô", "Õ", "Ö", "×", "Ø", "Ù", "Ú", "Û", "Ü",
           "Ý", "Þ", "ß", "à", "á", "â", "ã", "ä", "å", "æ", "ç", "è",
           "é", "ê", "ë", "ì", "í", "î", "ï", "ð", "ñ", "ò", "ó", "ô",
           "õ", "ö", "÷", "ø", "ù", "ú", "û", "ü", "ý", "þ", "ÿ" >>
  IN CASE r \in 32..126 /\ r # 96 -> ascii[r - 31]
       [] r = 9   -> "\t"
       [] r = 10  -> "\n"
       [] r = 12  -> "\f"
       [] r = 13  -> "\r"
       [] r = 127 -> ""
       [] r \in 161..255 -> latin1[r - 160]

\* utf8.DecodeRune: the number of bytes that encode the rune at the head of
\* the bytes s, 0 when they start with no valid encoding.
RuneLen(s) ==
  LET tail(i) == Len(s) >= i /\ s[i] \in 128..191
      second(lo, hi) == Len(s) >= 2 /\ s[2] \in lo..hi
  IN CASE s[1] < 128 -> 1
       [] s[1] \in 194..223 /\ tail(2) -> 2
       [] s[1] = 224 /\ second(160, 191) /\ tail(3) -> 3
       [] s[1] \in (225..236) \cup {238, 239} /\ tail(2) /\ tail(3) -> 3
       [] s[1] = 237 /\ second(128, 159) /\ tail(3) -> 3
       [] s[1] = 240 /\ second(144, 191) /\ tail(3) /\ tail(4) -> 4
       [] s[1] \in 241..243 /\ tail(2) /\ tail(3) /\ tail(4) -> 4
       [] s[1] = 244 /\ second(128, 143) /\ tail(3) /\ tail(4) -> 4
       [] OTHER -> 0

\* What strconv.Quote writes for the byte b that is an ASCII character or
\* starts no valid encoding: the character itself, an escape, or \xNN.
CharStr(b) ==
  LET hex == << "0", "1", "2", "3", "4", "5", "6", "7", "8", "9",
                "a", "b", "c", "d", "e", "f" >>
  IN CASE b = 34 -> "\\\""
       [] b = 92 -> "\\\\"
       [] b \in 32..126 /\ b # 96 -> Chr(b)
       [] b = 7  -> "\\a"
       [] b = 8  -> "\\b"
       [] b = 12 -> "\\f"
       [] b = 10 -> "\\n"
       [] b = 13 -> "\\r"
       [] b = 9  -> "\\t"
       [] b = 11 -> "\\v"
       [] b < 32 \/ b >= 127 -> "\\x" \o hex[(b \div 16) + 1] \o hex[(b % 16) + 1]

RECURSIVE Text(_)
\* The inside of strconv.Quote(string(s)): rune by rune, a printable rune
\* as itself and any other as an escape.  Of the runes above ASCII those up
\* to U+00FF are told apart (strconv.IsPrint: U+00A1 to U+00FF but U+00AD).
Text(s) ==
  LET hex == << "0", "1", "2", "3", "4", "5", "6", "7", "8", "9",
                "a", "b", "c", "d", "e", "f" >>
      r == (s[1] - 192) * 64 + (s[2] - 128)
  IN IF s = << >> THEN ""
     ELSE IF RuneLen(s) <= 1 THEN CharStr(Head(s)) \o Text(Tail(s))
     ELSE (CASE RuneLen(s) = 2 /\ r \in (161..255) \ {173} -> Chr(r)
             [] RuneLen(s) = 2 /\ r \in (128..160) \cup {173} ->
                  "\\u00" \o hex[(r \div 16) + 1] \o hex[(r % 16) + 1])
            \o Text(SubSeq(s, RuneLen(s) + 1, Len(s)))

\* %q of a string or byte slice.
Quote(s) == "\"" \o Text(s) \o "\""

RECURSIVE Digits(_)
\* The decimal digits of n >= 0 as bytes.
Digits(n) == IF n < 10 THEN <<48 + n>> ELSE Digits(n \div 10) \o <<48 + (n % 10)>>

RECURSIVE JoinBytes(_, _)
JoinBytes(ss, sep) ==
  IF ss = << >> THEN << >>
  ELSE IF Len(ss) = 1 THEN ss[1]
  ELSE ss[1] \o sep \o JoinBytes(Tail(ss), sep)

RECURSIVE HexText(_)
\* %#v of an unsigned integer without its "0x": lower-case hexadecimal.
HexText(n) ==
  LET digit == << "0", "1", "2", "3", "4", "5", "6", "7", "8", "9",
                  "a", "b", "c", "d", "e", "f" >>
  IN IF n < 16 THEN digit[n + 1] ELSE HexText(n \div 16) \o digit[(n % 16) + 1]

RECURSIVE LessBytes(_, _)
\* Go's < on strings: bytewise lexicographic.
LessBytes(a, b) ==
  IF b = << >> THEN FALSE
  ELSE IF a = << >> THEN TRUE
  ELSE IF Head(a) # Head(b) THEN Head(a) < Head(b)
  ELSE LessBytes(Tail(a), Tail(b))

\* The calendar fields of time c in its own zone.
DayShift(c) ==
  IF c.sod + c.loc.off < 0 THEN -1 ELSE IF c.sod + c.loc.off >= 86400 THEN 1 ELSE 0
SecOfDay(c) == c.sod + c.loc.off - 86400 * DayShift(c)

\* absDate: the calendar day that lies days days after January 1 of year 1,
\* through the cycles of 400, 100, 4 and 1 years.
CivilDate(days) ==
  LET daysBefore == << 0, 31, 59, 90, 120, 151, 181, 212, 243, 273, 304, 334 >>
      r1   == days % 146097
      n100 == IF r1 \div 36524 = 4 THEN 3 ELSE r1 \div 36524
      r2   == r1 - 36524 * n100
      r3   == r2 % 1461
      n1   == IF r3 \div 365 = 4 THEN 3 ELSE r3 \div 365
      yday == r3 - 365 * n1
      y    == 1 + 400 * (days \div 146097) + 100 * n100 + 4 * (r2 \div 1461) + n1
      leap == y % 4 = 0 /\ (y % 100 # 0 \/ y % 400 = 0)
      yd   == IF leap /\ yday > 59 THEN yday - 1 ELSE yday
      m    == CHOOSE k \in 1..12 :
                daysBefore[k] <= yd /\ (k = 12 \/ yd < daysBefore[k + 1])
  IN IF leap /\ yday = 59 THEN [y |-> y, m |-> 2, d |-> 29]
     ELSE [y |-> y, m |-> m, d |-> yd - daysBefore[m] + 1]
\* t.Date(): the calendar day of time c in its own zone.
Date(c) == CivilDate(AbsDays(c) + DayShift(c))

RECURSIVE Pad(_, _)
\* The decimal digits of n >= 0, with zeros in front up to the width w.
Pad(n, w) == IF w <= Len(Digits(n)) THEN Digits(n) ELSE <<48>> \o Pad(n, w - 1)

\* The text fmt prints for a pointer that it does not follow: its address.
\* Where an object lies is the allocator's choice: h.addr[i] is the rank of
\* the address of object i among the objects of the heap.  The text stands
\* for the address by that rank and the path inside the object, in three
\* digits each, so that two texts are in the order of the two addresses;
\* nil is the least.
AddrText(h, a) ==
  <<48, 120, 99>>
    \o JoinBytes([i \in 1..Len(a) |-> Pad(IF i = 1 THEN h.addr[a[1]] ELSE a[i], 3)], << >>)

RECURSIVE FracBytes(_, _)
\* The fraction v / 10^prec as "." and its digits without the trailing
\* zeros; nothing when v is 0.
FracBytes(v, prec) ==
  IF v = 0 THEN << >>
  ELSE IF v % 10 = 0 THEN FracBytes(v \div 10, prec - 1)
  ELSE <<46>> \o Pad(v, prec)

\* time.Time.String() of a time without a monotonic reading:
\* t.Format("2006-01-02 15:04:05.999999999 -0700 MST").
TimeString(c) ==
  LET \* zone := offset / 60, which rounds towards zero, and the sign is
      \* that of zone: an offset of less than a minute is written +0000
      min == (IF c.loc.off < 0 THEN -c.loc.off ELSE c.loc.off) \div 60
      sign == IF c.loc.off < 0 /\ min # 0 THEN <<45>> ELSE <<43>>
  IN Pad(Date(c).y, 4) \o <<45>> \o Pad(Date(c).m, 2) \o <<45>> \o Pad(Date(c).d, 2)
       \o <<32>> \o Pad(SecOfDay(c) \div 3600, 2)
       \o <<58>> \o Pad((SecOfDay(c) % 3600) \div 60, 2)
       \o <<58>> \o Pad(SecOfDay(c) % 60, 2) \o FracBytes(c.ns, 9)
       \o <<32>> \o sign \o Pad(min \div 60, 2) \o Pad(min % 60, 2) \o <<32>>
       \o (IF c.loc.name # << >> THEN c.loc.name
           \* a zone without an abbreviation is written as its offset
           ELSE sign \o Pad(min \div 60, 2) \o Pad(min % 60, 2))

\* time.Duration.String() of the duration c >= 0, held in nanoseconds as
\* hi * 100 + lo: hours, minutes and seconds from one second on, and a
\* number of ns, \xc2\xb5s or ms below.
DurationString(c) ==
  LET secs == c.hi \div 10000000
      frac == (c.hi % 10000000) * 100 + c.lo
  IN IF secs = 0
     THEN (IF frac = 0 THEN <<48, 115>>
           ELSE IF frac < 1000 THEN Digits(frac) \o <<110, 115>>
           ELSE IF frac < 1000000
                THEN Digits(frac \div 1000) \o FracBytes(frac % 1000, 3)
                       \o <<194, 181, 115>>
                ELSE Digits(frac \div 1000000) \o FracBytes(frac % 1000000, 6)
                       \o <<109, 115>>)
     ELSE (IF secs >= 3600 THEN Digits(secs \div 3600) \o <<104>> ELSE << >>)
            \o (IF secs >= 60 THEN Digits((secs \div 60) % 60) \o <<109>> ELSE << >>)
            \o Digits(secs % 60) \o FracBytes(frac, 9) \o <<115>>

\* v.Interface().(fmt.Stringer).String() as fmt calls it, for a v whose type
\* has the method: a nil pointer receiver makes the method panic, which fmt
\* catches and prints as <nil>.
StringOf(h, v) ==
  LET c0 == Content(h, v)
      nm == IF Kind(v) = "ptr" THEN v.typ.elem.name ELSE v.typ.name
      c  == IF Kind(v) = "ptr" THEN Load(h, c0.to) ELSE c0
  IN IF Kind(v) = "ptr" /\ c0.to = NilAddr THEN <<60, 110, 105, 108, 62>>
     ELSE CASE nm = "time.Time"     -> TimeString(c)
            [] nm = "repr.Enum"     -> <<86, 97, 108, 117, 101>>
            [] nm = "time.Duration" -> DurationString(c)

RECURSIVE FmtSort(_, _, _, _)
\* internal/fmtsort: the entries S of the map of heap h with the entries kv
\* and the key type t, by ascending key.
FmtSort(h, t, kv, S) ==
  LET RECURSIVE compare(_, _, _)
      \* compare(aVal, bVal) for the stored values a and b of type ty: -1, 0
      \* or 1.  Integers, strings and booleans (false first) by value,
      \* pointers and channels by address, structs field by field and
      \* arrays element by element, interfaces nil first and then, for one
      \* dynamic type, by value.  Two dynamic types are ordered by the
      \* addresses of their descriptors in the binary, which are not part
      \* of the model: that case has no arm.
      compare(ty, a, b) ==
        LET cmp(x, y) == IF x < y THEN -1 ELSE IF y < x THEN 1 ELSE 0
            text(x, y) == IF LessBytes(x, y) THEN -1 ELSE IF LessBytes(y, x) THEN 1 ELSE 0
            part(x, i) == CASE x.c = "array" -> x.e[i]
                            [] x.c = "time"  -> TimeField(x, i)
                            [] OTHER         -> x.f[i]
            partType(i) == IF ty.kind = "array" THEN ty.elem
                           ELSE StructFields(ty.name)[i].typ
            RECURSIVE parts(_, _)
            \* the first comparison of the parts i to n that is not 0
            parts(i, n) ==
              IF i > n THEN 0
              ELSE (LET c == compare(partType(i), part(a, i), part(b, i))
                    IN IF c # 0 THEN c ELSE parts(i + 1, n))
        IN CASE ty.kind \in {"int", "uint8", "uint64"} -> cmp(a.n, b.n)
             [] ty.kind = "int64" ->
                  IF a.hi # b.hi THEN cmp(a.hi, b.hi) ELSE cmp(a.lo, b.lo)
             [] ty.kind = "string" -> text(a.s, b.s)
             [] ty.kind = "bool" -> IF a.b = b.b THEN 0 ELSE IF a.b THEN 1 ELSE -1
             [] ty.kind = "ptr" -> text(AddrText(h, a.to), AddrText(h, b.to))
             [] ty.kind = "chan" -> text(AddrText(h, a.at), AddrText(h, b.at))
             [] ty.kind = "struct" -> parts(1, Len(StructFields(ty.name)))
             [] ty.kind = "array" -> parts(1, ty.len)
             [] ty.kind = "interface" /\ a.dt = TInvalid ->
                  IF b.dt = TInvalid THEN 0 ELSE -1
             [] ty.kind = "interface" /\ a.dt # TInvalid /\ b.dt = TInvalid -> 1
             [] ty.kind = "interface" /\ a.dt # TInvalid /\ a.dt = b.dt ->
                  compare(a.dt, a.dv, b.dv)
      m == CHOOSE i \in S : \A j \in S : i = j \/ compare(t, kv[i].k, kv[j].k) < 0
  IN IF S = {} THEN << >> ELSE <<m>> \o FmtSort(h, t, kv, S \ {m})

RECURSIVE SprintAt(_, _, _)
\* fmt's printValue(v, 'v', depth) as bytes, after the handleMethods that
\* printArg (depth 0) and printValue (below) run on a value that can be
\* taken as an interface.
SprintAt(h, v, depth) ==
  LET c == Content(h, v)
      nil == <<60, 110, 105, 108, 62>>
  IN
  IF Kind(v) = "invalid"
  THEN (IF depth = 0
        THEN <<60, 105, 110, 118, 97, 108, 105, 100, 32, 114, 101, 102, 108,
               101, 99, 116, 46, 86, 97, 108, 117, 101, 62>>
        ELSE nil)
  ELSE IF CanInterface(v) /\ "String" \in Methods(v.typ) THEN StringOf(h, v)
  ELSE
  CASE Kind(v) \in {"int", "uint8", "uint64"} ->
         IF c.n < 0 THEN <<45>> \o Digits(-c.n) ELSE Digits(c.n)
    [] Kind(v) = "int64" ->
         IF c.hi = 0 THEN Digits(c.lo) ELSE Digits(c.hi) \o Pad(c.lo, 2)
    [] Kind(v) = "string" -> c.s
    [] Kind(v) = "bool" -> IF c.b THEN <<116, 114, 117, 101>> ELSE <<102, 97, 108, 115, 101>>
    [] Kind(v) = "interface" ->
         IF c.dt = TInvalid THEN nil ELSE SprintAt(h, Elem(h, v), depth + 1)
    [] Kind(v) = "ptr" ->
         IF c.to = NilAddr THEN nil
         ELSE IF depth = 0 /\ v.typ.elem.kind \in {"array", "slice", "struct", "map"}
              THEN <<38>> \o SprintAt(h, Elem(h, v), depth + 1)
              ELSE AddrText(h, c.to)
    [] Kind(v) \in {"chan", "func"} ->
         IF c.at = NilAddr THEN nil ELSE AddrText(h, c.at)
    [] Kind(v) = "struct" ->
         <<123>> \o JoinBytes([i \in 1..NumField(v) |-> SprintAt(h, Field(v, i), depth + 1)],
                              <<32>>) \o <<125>>
    [] Kind(v) \in {"array", "slice"} ->
         <<91>> \o JoinBytes([i \in 1..VLen(h, v) |-> SprintAt(h, Index(h, v, i), depth + 1)],
                             <<32>>) \o <<93>>
    [] Kind(v) = "map" ->
         LET keys == IF c.m = NilAddr THEN << >>
                     ELSE FmtSort(h, v.typ.key, Load(h, c.m).kv, 1..VLen(h, v))
         IN <<109, 97, 112, 91>>
              \o JoinBytes([i \in 1..Len(keys) |->
                              SprintAt(h, MapPart(h, v, keys[i], 1, 1), depth + 1)
                                \o <<58>>
                                \o SprintAt(h, MapPart(h, v, keys[i], 2, 1), depth + 1)],
                           <<32>>)
              \o <<93>>

\* fmt.Sprint(v) of a reflect.Value
Sprint(h, v) == SprintAt(h, v, 0)

(***************************************************************************)
(* Options and the Printer.                                                *)
(***************************************************************************)
Opt(op, s, b, t) == [op |-> op, s |-> s, b |-> b, t |-> t]
Indent(indent)      == Opt("Indent", indent, FALSE, TInvalid)
NoIndent            == Indent("")
OmitEmpty(b)        == Opt("OmitEmpty", "", b, TInvalid)
OmitZero(b)         == Opt("OmitZero", "", b, TInvalid)
ExplicitTypes(ok)   == Opt("ExplicitTypes", "", ok, TInvalid)
IgnoreGoStringer    == Opt("IgnoreGoStringer", "", TRUE, TInvalid)
IgnorePrivate       == Opt("IgnorePrivate", "", TRUE, TInvalid)
ScalarLiterals      == Opt("ScalarLiterals", "", TRUE, TInvalid)
Hide(t)             == Opt("Hide", "", TRUE, t)
HideField(name)     == Opt("HideField", name, TRUE, TInvalid)
AlwaysIncludeType   == Opt("AlwaysIncludeType", "", TRUE, TInvalid)

\* Calling the option function o on the printer p.
ApplyOption(p, o) ==
  CASE o.op = "Indent"            -> [p EXCEPT !.indent = o.s]
    [] o.op = "OmitEmpty"         -> [p EXCEPT !.omitEmpty = o.b]
    [] o.op = "OmitZero"          -> [p EXCEPT !.omitZero = o.b]
    [] o.op = "ExplicitTypes"     -> [p EXCEPT !.explicitTypes = TRUE]
    [] o.op = "IgnoreGoStringer"  -> [p EXCEPT !.ignoreGoStringer = TRUE]
    [] o.op = "IgnorePrivate"     -> [p EXCEPT !.ignorePrivate = TRUE]
    [] o.op = "ScalarLiterals"    -> [p EXCEPT !.useLiterals = TRUE]
    [] o.op = "Hide"              -> [p EXCEPT !.exclude = @ \cup {o.t}]
    [] o.op = "HideField"         -> [p EXCEPT !.excludeFields = @ \cup {o.s}]
    [] o.op = "AlwaysIncludeType" -> [p EXCEPT !.alwaysIncludeType = TRUE]

\* The Printer literal New starts from.
NewPrinter ==
  [indent |-> "  ", omitEmpty |-> TRUE, omitZero |-> TRUE,
   ignoreGoStringer |-> FALSE, ignorePrivate |-> FALSE,
   alwaysIncludeType |-> FALSE, explicitTypes |-> FALSE,
   exclude |-> {}, excludeFields |-> {}, useLiterals |-> FALSE]

RECURSIVE ApplyAll(_, _)
ApplyAll(p, options) ==
  IF options = << >> THEN p
  ELSE ApplyAll(ApplyOption(p, Head(options)), Tail(options))

\* New(w, options...)
New(options) == ApplyAll(NewPrinter, options)
\* A nextIndent that forgets the indentation of the enclosing levels.
nextIndentFlat(p, indent) == p.indent
nextIndent(p, indent) == IF p.indent # "" THEN indent \o p.indent ELSE ""
thisIndent(p, indent) == IF p.indent # "" THEN indent ELSE ""

(***************************************************************************)
(* The traversal state threaded through reprValue: the writes made to p.w  *)
(* so far, the shared map `seen`, and how the call died, if it did         *)
(* ("panic": a run-time panic; "overflow": the Go stack was exhausted).    *)
(***************************************************************************)
St0 ==
  [out |-> << >>, seen |-> {}, err |-> "", stack |-> << >>, log |-> << >>,
   ncopy |-> 0, nkeys |-> 0]

\* The traversal observed at one point: the map `seen`, and the values of
\* the calls of reprValue active on the Go stack, outermost first.
Observe(st) ==
  [st EXCEPT !.log = Append(@, [seen |-> st.seen, stack |-> st.stack])]

\* fmt.Fprint(p.w, s); a write of no bytes leaves the sink as it was.
W(st, s) == IF st.err # "" \/ s = "" THEN st ELSE [st EXCEPT !.out = Append(@, s)]

\* The bytes of a []byte value (v.Bytes()).
BytesOf(h, v) ==
  LET c == Content(h, v) IN [i \in 1..c.len |-> Load(h, c.base \o <<i>>).n]

\* insertionSortLessFunc, which sort.Slice runs on up to 12 elements: each
\* element is swapped leftwards while it is less than its left neighbour.
RECURSIVE InsertLeft(_, _, _, _)
InsertLeft(h, v, keys, j) ==
  IF j > 1 /\ LessBytes(Sprint(h, MapPart(h, v, keys[j], 1, 1)),
                        Sprint(h, MapPart(h, v, keys[j - 1], 1, 1)))
  THEN InsertLeft(h, v, [keys EXCEPT ![j] = keys[j - 1], ![j - 1] = keys[j]], j - 1)
  ELSE keys
RECURSIVE SortFrom(_, _, _, _)
SortFrom(h, v, keys, i) ==
  IF i > Len(keys) THEN keys ELSE SortFrom(h, v, InsertLeft(h, v, keys, i), i + 1)
\* A sort that leaves the keys in the order the runtime enumerated them.
SortKeysNone(h, v, keys) == keys
\* sort.Slice(keys, func(i, j) { return fmt.Sprint(keys[i]) < fmt.Sprint(keys[j]) })
\* keys are the entry numbers of map v.
SortKeys(h, v, keys) == SortFrom(h, v, keys, 2)

\* v.MapKeys(): the entries of the map in the order the runtime enumerates
\* them, which the language leaves unspecified and which is chosen afresh
\* by every call: ords[k] is the order of the k-th call of a rendering on a
\* map of two entries or more, a permutation of entry numbers.
MapKeys(h, v, ords, k) ==
  IF VLen(h, v) >= 2 /\ k <= Len(ords)
  THEN SelectSeq(ords[k], LAMBDA i : i <= VLen(h, v))
  ELSE [i \in 1..VLen(h, v) |-> i]

\* asTime(v)
asTime(v) == CanInterface(v) /\ v.typ = TTime

\* v.Interface().(fmt.GoStringer).GoString() of a time.Time.
GoString(c) ==
  LET longMonthNames ==
        << "January", "February", "March", "April", "May", "June", "July",
           "August", "September", "October", "November", "December" >>
      hex == << "0", "1", "2", "3", "4", "5", "6", "7", "8", "9",
                "a", "b", "c", "d", "e", "f" >>
      \* quote of package time: a byte outside ASCII or below the space is
      \* written \xNN, a quote or backslash gets a backslash, any other
      \* character is written as it is
      RECURSIVE quote(_)
      quote(s) ==
        IF s = << >> THEN ""
        ELSE (IF Head(s) < 32 \/ Head(s) >= 128
              THEN "\\x" \o hex[(Head(s) \div 16) + 1] \o hex[(Head(s) % 16) + 1]
              ELSE IF Head(s) \in {34, 92} THEN "\\" \o Chr(Head(s))
              ELSE Chr(Head(s)))
               \o quote(Tail(s))
      zone == CASE c.loc.id \in {"utc", "nil"} -> "time.UTC"
                [] c.loc.id = "local"          -> "time.Local"
                [] OTHER -> "time.Location(\"" \o quote(c.loc.place) \o "\")"
  IN "time.Date(" \o ToString(Date(c).y) \o ", time."
       \o longMonthNames[Date(c).m] \o ", " \o ToString(Date(c).d) \o ", "
       \o ToString(SecOfDay(c) \div 3600) \o ", "
       \o ToString((SecOfDay(c) % 3600) \div 60) \o ", "
       \o ToString(SecOfDay(c) % 60) \o ", "
       \o ToString(c.ns) \o ", " \o zone \o ")"

\* timeToGo(w, t)
timeToGo(st, c) ==
  IF c.zero THEN W(st, "time.Time{}")
  ELSE LET zone == CASE c.loc.id = "nil"   -> "nil"
                     [] c.loc.id = "utc"   -> "time.UTC"
                     [] c.loc.id = "local" -> "time.Local"
                     [] OTHER -> "time.FixedZone(" \o Quote(c.loc.name) \o ", "
                                   \o ToString(c.loc.off) \o ")"
       IN W(st, "time.Date(" \o ToString(Date(c).y) \o ", "
                  \o ToString(Date(c).m) \o ", " \o ToString(Date(c).d) \o ", "
                  \o ToString(SecOfDay(c) \div 3600) \o ", "
                  \o ToString((SecOfDay(c) % 3600) \div 60) \o ", "
                  \o ToString(SecOfDay(c) % 60) \o ", "
                  \o ToString(c.ns) \o ", " \o zone \o ")")

(***************************************************************************)
(* Printer.reprValue.  e = [p, h, ords] is the printer, the heap and the   *)
(* map enumeration orders of this run; d counts the active calls.          *)
(***************************************************************************)
\* A printer that names the type of every element and key.
elemShowStructTypeAlways(p) == TRUE
\* p.alwaysIncludeType || p.explicitTypes: the showStructType handed down to
\* the elements of a slice or array and to the keys of a map.
elemShowStructType(p) == p.alwaysIncludeType \/ p.explicitTypes

RECURSIVE reprValue(_, _, _, _, _, _, _)
RECURSIVE reprElems(_, _, _, _, _, _)
RECURSIVE reprEntries(_, _, _, _, _, _, _, _)
RECURSIVE reprFields(_, _, _, _, _, _, _)

\* The loop over the elements of a slice or array, from element i on.
reprElems(e, st, v, i, ni, d) ==
  IF i > VLen(e.h, v) \/ st.err # "" THEN st
  ELSE LET s1 == W(st, ni)
           s2 == reprValue(e, s1, Index(e.h, v, i), ni,
                           elemShowStructType(e.p),
                           v.typ.elem = anyType, d + 1)
           s3 == IF e.p.indent # "" THEN W(s2, ",\n")
                 ELSE IF i < VLen(e.h, v) THEN W(s2, ", ") ELSE s2
       IN reprElems(e, s3, v, i + 1, ni, d)

\* The loop over the sorted keys of a map, from position i on.  The keys
\* are the copies kb + 1 .. kb + v.Len() made by MapKeys; every MapIndex
\* makes one more copy.
reprEntries(e, st, v, keys, i, ni, d, kb) ==
  IF i > Len(keys) \/ st.err # "" THEN st
  ELSE LET s1 == W([st EXCEPT !.ncopy = @ + 1], ni)
           s2 == reprValue(e, s1, MapPart(e.h, v, keys[i], 1, kb + keys[i]), ni,
                           elemShowStructType(e.p),
                           v.typ.key = anyType, d + 1)
           s3 == W(s2, ": ")
           s4 == reprValue(e, s3, MapPart(e.h, v, keys[i], 2, s1.ncopy), ni, TRUE,
                           v.typ.elem = anyType, d + 1)
           s5 == IF e.p.indent # "" THEN W(s4, ",\n")
                 ELSE IF i < VLen(e.h, v) THEN W(s4, ", ") ELSE s4
       IN reprEntries(e, s5, v, keys, i + 1, ni, d, kb)

\* Whether field f is dropped by the omit-zero test; "panic" when the test
\* calls f.Interface() on a field obtained through an unexported field.
OmitZeroTest(e, f) ==
  IF ~e.p.omitZero THEN "keep"
  ELSE IF ImplementsIsZeroer(f.typ)
       THEN IF ~CanInterface(f) THEN "panic"
            \* IsZero through a pointer reads the time it points to
            ELSE IF Kind(f) = "ptr"
            THEN (IF IsNil(e.h, f) THEN "panic"
                  ELSE IF Load(e.h, Content(e.h, f).to).zero THEN "omit" ELSE "keep")
            ELSE IF Content(e.h, f).zero \/ IsZero(e.h, f) THEN "omit" ELSE "keep"
       ELSE IF IsZero(e.h, f) THEN "omit" ELSE "keep"

\* The omit-empty test on field f.
OmitEmptyTest(e, f) ==
  e.p.omitEmpty /\ ( \/ IsZero(e.h, f)
                     \/ (f.typ.kind = "slice" /\ VLen(e.h, f) = 0)
                     \/ (f.typ.kind = "map" /\ VLen(e.h, f) = 0) )

\* The loop over the fields of struct v, from field i on.
reprFields(e, st, v, i, previous, ni, d) ==
  IF i > NumField(v) \/ st.err # "" THEN st
  ELSE LET t == TypeField(v, i)
           f == Field(v, i)
       IN
       IF t.typ \in e.p.exclude THEN reprFields(e, st, v, i + 1, previous, ni, d)
       ELSE IF t.name \in e.p.excludeFields THEN reprFields(e, st, v, i + 1, previous, ni, d)
       ELSE IF e.p.ignorePrivate /\ ~CanInterface(f)
            THEN reprFields(e, st, v, i + 1, previous, ni, d)
       ELSE IF OmitZeroTest(e, f) = "panic" THEN [st EXCEPT !.err = "panic"]
       ELSE IF OmitZeroTest(e, f) = "omit" THEN reprFields(e, st, v, i + 1, previous, ni, d)
       ELSE IF OmitEmptyTest(e, f) THEN reprFields(e, st, v, i + 1, previous, ni, d)
       ELSE LET s1 == IF previous /\ e.p.indent = "" THEN W(st, ", ") ELSE st
                s2 == W(s1, ni \o t.name \o ": ")
                s3 == reprValue(e, s2, f, ni, TRUE, t.typ = anyType, d + 1)
                nc == \E j \in (i + 1)..NumField(v) : CanInterface(Field(v, j))
                s4 == IF e.p.ignorePrivate /\ ~nc THEN s3
                      ELSE IF e.p.indent # "" THEN W(s3, ",\n") ELSE s3
            IN reprFields(e, s4, v, i + 1, TRUE, ni, d)

\* The body of reprValue after v has been entered in seen.
reprBody(e, st, v0, indent, showStructType, isAnyValue, d) ==
  IF Kind(v0) = "invalid"
     \/ (Kind(v0) \in {"ptr", "map", "chan", "slice", "func", "interface"}
           /\ IsNil(e.h, v0))
  THEN W(st, "nil")
  ELSE LET t == v0.typ IN
  IF t = byteSliceType THEN W(st, "[]byte(" \o Quote(BytesOf(e.h, v0)) \o ")")
  ELSE LET uv == NewAtElem(v0)
           v  == IF ~CanInterface(v0) /\ CanAddr(v0) /\ CanInterface(uv) THEN uv ELSE v0
           in == thisIndent(e.p, indent)
           ni == nextIndent(e.p, indent)
           c  == Content(e.h, v)
       IN
  IF ~e.p.ignoreGoStringer /\ ImplementsGoStringer(t) /\ CanInterface(v)
  THEN W(st, GoString(IF Kind(v) = "ptr" THEN Load(e.h, c.to) ELSE c))
  ELSE
  CASE Kind(v) \in {"slice", "array"} ->
         LET s1 == W(st, substAny(v.typ) \o "{") IN
         IF VLen(e.h, v) = 0 THEN W(s1, "}")
         ELSE LET s2 == IF e.p.indent # "" THEN W(s1, "\n") ELSE s1
                  s3 == reprElems(e, s2, v, 1, ni, d)
              IN W(s3, in \o "}")
    [] Kind(v) = "chan" ->
         \* v.Cap() is the capacity of the channel the value points to
         W(W(W(st, "make("), substAny(v.typ)),
           ", " \o ToString(Load(e.h, c.at).cap) \o ")")
    [] Kind(v) = "map" ->
         LET s1 == W(st, substAny(v.typ) \o "{")
             s2 == IF e.p.indent # "" /\ VLen(e.h, v) # 0 THEN W(s1, "\n") ELSE s1
             keys == SortKeys(e.h, v, MapKeys(e.h, v, e.ords, st.nkeys + 1))
             s3 == reprEntries(e, [s2 EXCEPT !.nkeys = IF VLen(e.h, v) >= 2
                                                       THEN @ + 1 ELSE @,
                                             !.ncopy = @ + VLen(e.h, v)],
                               v, keys, 1, ni, d, st.ncopy)
         IN W(s3, in \o "}")
    [] Kind(v) = "struct" ->
         IF asTime(v) THEN timeToGo(st, c)
         ELSE LET s1 == IF showStructType THEN W(st, substAny(v.typ) \o "{")
                        ELSE W(st, "{")
                  s2 == IF e.p.indent # "" /\ NumField(v) # 0 THEN W(s1, "\n") ELSE s1
                  s3 == reprFields(e, s2, v, 1, FALSE, ni, d)
              IN W(s3, indent \o "}")
    [] Kind(v) = "ptr" ->
         IF IsNil(e.h, v) THEN W(st, "nil")
         ELSE LET s1 == IF showStructType THEN W(st, "&") ELSE st
              IN reprValue(e, s1, Elem(e.h, v), indent, showStructType, FALSE, d + 1)
    [] Kind(v) = "string" ->
         IF t.name # "string" \/ e.p.alwaysIncludeType
         THEN W(st, TypeString(t) \o "(" \o Quote(c.s) \o ")")
         ELSE W(st, Quote(c.s))
    [] Kind(v) = "interface" ->
         IF IsNil(e.h, v) THEN W(st, substAny(v.typ) \o "(nil)")
         ELSE reprValue(e, st, Elem(e.h, v), indent, TRUE, TRUE, d + 1)
    [] Kind(v) = "func" -> W(st, substAny(v.typ))
    [] OTHER ->
         \* %v, which is the String method of a value that has one and can
         \* be taken as an interface, or with useLiterals %#v, which is not,
         \* and which differs for the unsigned kinds
         LET RECURSIVE raw(_)
             \* string(s) for a text s of ASCII and Latin-1 characters
             raw(s) ==
               IF s = << >> THEN ""
               ELSE IF RuneLen(s) = 2
               THEN Chr((s[1] - 192) * 64 + s[2] - 128) \o raw(SubSeq(s, 3, Len(s)))
               ELSE Chr(Head(s)) \o raw(Tail(s))
             value == IF ~e.p.useLiterals /\ CanInterface(v) /\ "String" \in Methods(t)
                      THEN raw(StringOf(e.h, v))
                      ELSE IF Kind(v) = "bool" THEN (IF c.b THEN "true" ELSE "false")
                      ELSE IF e.p.useLiterals /\ Kind(v) \in {"uint8", "uint64"}
                      THEN "0x" \o HexText(c.n)
                      \* an int64 held as hi * 100 + lo
                      ELSE IF Kind(v) = "int64"
                      THEN (IF c.hi = 0 THEN ToString(c.lo)
                            ELSE ToString(c.hi) \o (IF c.lo < 10 THEN "0" ELSE "")
                                   \o ToString(c.lo))
                      ELSE ToString(c.n)
         IN IF t.name # realKindName(t.kind) \/ e.p.alwaysIncludeType \/ isAnyValue
            THEN W(st, TypeString(t) \o "(" \o value \o ")")
            ELSE W(st, value)

\* A reprValue that leaves its value in seen when it returns.
reprValueKeep(e, st, v, indent, showStructType, isAnyValue, d) ==
  IF st.err # "" THEN st
  ELSE IF d > MaxDepth THEN [st EXCEPT !.err = "overflow"]
  ELSE IF v \in st.seen THEN Observe(W(st, "..."))
  ELSE LET s1 == Observe([st EXCEPT !.seen = @ \cup {v}, !.stack = Append(@, v)])
           s2 == reprBody(e, s1, v, indent, showStructType, isAnyValue, d)
       IN Observe([s2 EXCEPT !.stack = SubSeq(@, 1, Len(@) - 1)])
\* reprValue(seen, v, indent, showStructType, isAnyValue): a value already
\* in seen prints as "..."; otherwise it is entered, rendered, and deleted
\* again when the call returns (the deferred delete).
reprValue(e, st, v, indent, showStructType, isAnyValue, d) ==
  IF st.err # "" THEN st
  ELSE IF d > MaxDepth THEN [st EXCEPT !.err = "overflow"]
  ELSE IF v \in st.seen THEN Observe(W(st, "..."))
  ELSE LET s1 == Observe([st EXCEPT !.seen = @ \cup {v}, !.stack = Append(@, v)])
           s2 == reprBody(e, s1, v, indent, showStructType, isAnyValue, d)
       IN Observe([s2 EXCEPT !.seen = @ \ {v},
                             !.stack = SubSeq(@, 1, Len(@) - 1)])

(***************************************************************************)
(* Inputs.  An input is the interface value handed to String together with *)
(* the heap it points into: root is its dynamic type and stored content,   *)
(* objs the heap objects, nmap the size of its largest map, calls the      *)
(* number of times a rendering enumerates a map of two entries or more,    *)
(* addr the ranks of the addresses of the objects, here in the order of    *)
(* their numbers.  fam names the family the input belongs to.              *)
(***************************************************************************)
In(fam, t, c, objs, nmap) ==
  [fam |-> fam, root |-> [typ |-> t, c |-> c], objs |-> objs, nmap |-> nmap,
   calls |-> IF nmap < 2 THEN 0 ELSE 1, addr |-> [i \in 1..Len(objs) |-> i]]

\* The elements of a finite set of integers in increasing order.
RECURSIVE SortedSeq(_)
SortedSeq(S) ==
  IF S = {} THEN << >>
  ELSE LET m == CHOOSE x \in S : \A y \in S : x <= y IN <<m>> \o SortedSeq(S \ {m})

\* ---- maps ----
\* map[int]string with the keys K, the value of key k being the letter
\* 'a' + k / 5 (1: "a", 9: "b", 10: "c").
IntMapIn(K) ==
  In("intmap", MapOf(TInt, TString), CMap(<<1>>),
     << CMapObj([i \in 1..Cardinality(K) |->
                   KV(CInt(SortedSeq(K)[i]), CStr(<<97 + (SortedSeq(K)[i] \div 5)>>))]) >>,
     Cardinality(K))
\* map[any]int{k1: 1, k2: 2}
AnyMapIn(k1, k2) ==
  In("anymap", MapOf(anyType, TInt), CMap(<<1>>),
     << CMapObj(<< KV(k1, CInt(1)), KV(k2, CInt(2)) >>) >>, 2)

\* Maps with keys among 1, 9 and 10, map[string]int{"b": 3, "a": 1, "c": 5},
\* a nil map, and maps with keys of two types;
\* a, b := 13, 14; map[*int]int{&a: 1, &b: 2}, with a below b in memory and
\* with b below a;
\* map[*map[K]int]int{&m1: 1, &m2: 2}: fmt prints such a key as "&" and the
\* map it points to, with the entries in the order of internal/fmtsort.
MapInputs ==
  LET \* Objects 2 and 3 are the variables m1 and m2, objects 4 and 5 the
      \* maps they hold.  kt is K, m1 and m2 are the entries of the two
      \* maps, extra the objects their keys point to (objects 6 and 7) and
      \* ranks the ranks of all addresses.
      keyIn(kt, m1, m2, extra, ranks) ==
        [In("map.key", MapOf(PtrTo(MapOf(kt, TInt)), TInt), CMap(<<1>>),
            << CMapObj(<< KV(CPtr(<<2>>), CInt(1)), KV(CPtr(<<3>>), CInt(2)) >>),
               CMap(<<4>>), CMap(<<5>>), CMapObj(m1), CMapObj(m2) >> \o extra, 2)
           EXCEPT !.calls = 1 + (IF Len(m1) >= 2 THEN 1 ELSE 0)
                              + (IF Len(m2) >= 2 THEN 1 ELSE 0),
                  !.addr = ranks]
      at(sod, ns) == CTime(FALSE, 2011, 3, 23, sod, ns, UTCLoc)
      leaf(a, b) == CStruct(<< CInt(a), CStr(<<b>>) >>)
      chan(a) == [c |-> "chan", at |-> a]
      chanobj == [c |-> "chanobj", cap |-> 0]
  IN
  {IntMapIn(K) : K \in SUBSET {1, 9, 10}}
  \cup { In("strmap", MapOf(TString, TInt), CMap(<<1>>),
            << CMapObj(<< KV(CStr(<<98>>), CInt(3)), KV(CStr(<<97>>), CInt(1)),
                          KV(CStr(<<99>>), CInt(5)) >>) >>, 3),
         In("nilmap", MapOf(TString, TInt), CMap(NilAddr), << >>, 0) }
  \cup { AnyMapIn(CIface(TInt, CInt(1)), CIface(TString, CStr(<<49>>))),  \* 1, "1"
         AnyMapIn(CIface(TInt, CInt(1)), CIface(TString, CStr(<<97>>))),  \* 1, "a"
         AnyMapIn(CIface(TString, CStr(<<57>>)), CIface(TInt, CInt(10))) } \* "9", 10
  \cup { [In("addr.key", MapOf(PtrTo(TInt), TInt), CMap(<<3>>),
             << CInt(13), CInt(14),
                CMapObj(<< KV(CPtr(<<1>>), CInt(1)), KV(CPtr(<<2>>), CInt(2)) >>) >>, 2)
            EXCEPT !.addr = ranks] : ranks \in { <<1, 2, 3>>, <<2, 1, 3>> } }
  \cup { \* {10: 1, 9: 2} and {5: 0}
         keyIn(TInt, << KV(CInt(10), CInt(1)), KV(CInt(9), CInt(2)) >>,
               << KV(CInt(5), CInt(0)) >>, << >>, <<1, 2, 3, 4, 5>>),
         \* {300: 1, 50: 2} and {100: 0}
         keyIn(TInt64, << KV(CInt64(3, 0), CInt(1)), KV(CInt64(0, 50), CInt(2)) >>,
               << KV(CInt64(1, 0), CInt(0)) >>, << >>, <<1, 2, 3, 4, 5>>),
         \* {{A: 2, b: "a"}: 1, {A: 1, b: "b"}: 2} and {{A: 1, b: "c"}: 0}
         keyIn(TLeaf, << KV(leaf(2, 97), CInt(1)), KV(leaf(1, 98), CInt(2)) >>,
               << KV(leaf(1, 99), CInt(0)) >>, << >>, <<1, 2, 3, 4, 5>>),
         \* {[2]int64{150, 300}: 1, [2]int64{150, 20}: 2} and
         \* {[2]int64{150, 25}: 0}
         keyIn(ArrayOf(2, TInt64),
               << KV(CArr(<< CInt64(1, 50), CInt64(3, 0) >>), CInt(1)),
                  KV(CArr(<< CInt64(1, 50), CInt64(0, 20) >>), CInt(2)) >>,
               << KV(CArr(<< CInt64(1, 50), CInt64(0, 25) >>), CInt(0)) >>,
               << >>, <<1, 2, 3, 4, 5>>),
         \* {2: 1, 1: 2} and {1: 2, nil: 1}, the keys of type any
         keyIn(anyType,
               << KV(CIface(TInt, CInt(2)), CInt(1)), KV(CIface(TInt, CInt(1)), CInt(2)) >>,
               << KV(CIface(TInt, CInt(1)), CInt(2)), KV(CNilIface, CInt(1)) >>,
               << >>, <<1, 2, 3, 4, 5>>),
         \* {11:15:54.000000007: 1, 23:00:00.000000005: 2} and
         \* {12:00:00.000000006: 0}, times of 2011-03-23 in UTC
         keyIn(TTime, << KV(at(40554, 7), CInt(1)), KV(at(82800, 5), CInt(2)) >>,
               << KV(at(43200, 6), CInt(0)) >>, << >>, <<1, 2, 3, 4, 5>>) }
  \cup { \* a, b := 13, 14; {&b: 1, &a: 2} and {&a: 0}, in both orders of a
         \* and b in memory
         keyIn(PtrTo(TInt), << KV(CPtr(<<7>>), CInt(1)), KV(CPtr(<<6>>), CInt(2)) >>,
               << KV(CPtr(<<6>>), CInt(0)) >>, << CInt(13), CInt(14) >>, ranks) :
           ranks \in { <<1, 2, 3, 4, 5, 6, 7>>, <<1, 2, 3, 4, 5, 7, 6>> } }
  \cup { \* c := make(chan int); {c: 1, nil: 2} and {make(chan int): 0}
         keyIn(ChanOf("chan", TInt),
               << KV(chan(<<6>>), CInt(1)), KV(chan(NilAddr), CInt(2)) >>,
               << KV(chan(<<7>>), CInt(0)) >>, << chanobj, chanobj >>,
               <<1, 2, 3, 4, 5, 6, 7>>) }

\* ---- cyclic and shared structures of type data ----
DataC(id, parent, children) == CStruct(<< CInt(id), CPtr(parent), children >>)
NilSlice == CSlice(NilAddr, 0)
\* root := &data{id: 1, children: []*data{child}}; child.parent = root
CycleViaSlice ==
  In("cycle", PtrTo(TData), CPtr(<<1>>),
     << DataC(1, NilAddr, CSlice(<<3>>, 1)),
        DataC(2, <<1>>, NilSlice),
        CArr(<< CPtr(<<2>>) >>) >>, 0)
\* r := &data{id: 1}; r.parent = r
SelfLoop ==
  In("cycle", PtrTo(TData), CPtr(<<1>>), << DataC(1, <<1>>, NilSlice) >>, 0)
\* a := &data{id: 1}; b := &data{id: 2, parent: a}; a.parent = b
TwoCycle ==
  In("cycle", PtrTo(TData), CPtr(<<1>>),
     << DataC(1, <<2>>, NilSlice), DataC(2, <<1>>, NilSlice) >>, 0)
\* r := &data{id: 2}; r.parent = r; the value passed is data{id: 1, parent: r}
LoopByValue ==
  In("cycle", TData, DataC(1, <<1>>, NilSlice), << DataC(2, <<1>>, NilSlice) >>, 0)
\* r as above; the value passed is []any{data{id: 1, parent: r}}
LoopInAny ==
  In("cycle", SliceOf(anyType), CSlice(<<2>>, 1),
     << DataC(2, <<1>>, NilSlice),
        CArr(<< CIface(TData, DataC(1, <<1>>, NilSlice)) >>) >>, 0)
\* c := &data{id: 2}; the value passed is &data{id: 1, children: []*data{c, c}}
SharedChild ==
  In("shared", PtrTo(TData), CPtr(<<1>>),
     << DataC(1, NilAddr, CSlice(<<3>>, 2)),
        DataC(2, NilAddr, NilSlice),
        CArr(<< CPtr(<<2>>), CPtr(<<2>>) >>) >>, 0)
\* &data{id: 1, parent: &data{id: 2}}: no cycle
Chain ==
  In("chain", PtrTo(TData), CPtr(<<1>>),
     << DataC(1, <<2>>, NilSlice), DataC(2, NilAddr, NilSlice) >>, 0)

DataInputs == {CycleViaSlice, SelfLoop, TwoCycle, LoopByValue, LoopInAny, SharedChild, Chain}

\* ---- structs of type rec: zero, nil and empty fields ----
\* rec{A: a, P: p, S: s, M: m, B: b}.  Heap: 1 the int 13, 2 the array
\* behind a two-element slice, 3 an empty map, 4 a zero-length array.
RecIn(fam, a, p, s, m, b) ==
  In(fam, TRec, CStruct(<< CInt(a), CPtr(p), s, m, CStr(b) >>),
     << CInt(13), CArr(<< CInt(1), CInt(2) >>), CMapObj(<< >>), CArr(<< >>) >>, 0)
NilMap == CMap(NilAddr)
\* and stamp{A: a, T: t}, t being nil or a pointer to the time
\* 2011-03-23 11:15:54.000987654 UTC.
RecInputs ==
  { RecIn("rec", a, p, s, m, b) :
      a \in {0, 7}, p \in {NilAddr, <<1>>},
      s \in {NilSlice, CSlice(<<4>>, 0), CSlice(<<2>>, 2)},
      m \in {NilMap, CMap(<<3>>)}, b \in {<< >>, <<98>>} }
  \cup { In("stamp", StructT("repr.stamp"), CStruct(<< CInt(a), CPtr(t) >>),
            << CTime(FALSE, 2011, 3, 23, 40554, 987654, UTCLoc) >>, 0) :
           a \in {0, 7}, t \in {NilAddr, <<1>>} }

\* ---- a pointer to the int 13, and a nil *int, in every position ----
PtrAt(pos, c) ==
  CASE pos = "top"     -> In("ptr.top", PtrTo(TInt), c, << CInt(13) >>, 0)
    [] pos = "field"   -> In("ptr.field", TRec,
                             CStruct(<< CInt(0), c, NilSlice, NilMap, CStr(<< >>) >>),
                             << CInt(13) >>, 0)
    [] pos = "mapval"  -> In("ptr.mapval", MapOf(TString, PtrTo(TInt)), CMap(<<2>>),
                             << CInt(13), CMapObj(<< KV(CStr(<<97>>), c) >>) >>, 1)
    [] pos = "elem"    -> In("ptr.elem", SliceOf(PtrTo(TInt)), CSlice(<<2>>, 1),
                             << CInt(13), CArr(<< c >>) >>, 0)
    [] pos = "arrelem" -> In("ptr.arrelem", ArrayOf(1, PtrTo(TInt)), CArr(<< c >>),
                             << CInt(13) >>, 0)
    [] pos = "key"     -> In("ptr.key", MapOf(PtrTo(TInt), TInt), CMap(<<2>>),
                             << CInt(13), CMapObj(<< KV(c, CInt(1)) >>) >>, 1)
PtrPositions == {"top", "field", "mapval", "elem", "arrelem", "key"}
PtrInputs == { PtrAt(pos, c) : pos \in PtrPositions, c \in {CPtr(<<1>>), CPtr(NilAddr)} }

\* ---- sequences of bytes ----
B123 == CArr(<< CInt(1), CInt(2), CInt(3) >>)
\* The eight bytes are those of U+00E9, 0xff, those of U+00A0, a tab, DEL
\* and a quote.
ByteInputs ==
  { In("bytes.slice", SliceOf(TUint8), CSlice(<<1>>, 3), << B123 >>, 0),
    In("bytes.slice", SliceOf(TUint8), CSlice(<<1>>, 0), << CArr(<< >>) >>, 0),
    In("bytes.slice", SliceOf(TUint8), CSlice(<<1>>, 8),
       << CArr(<< CInt(195), CInt(169), CInt(255), CInt(194), CInt(160), CInt(9),
                  CInt(127), CInt(34) >>) >>, 0),
    \* [][]byte{{1, 2, 3}}
    In("bytes.elem", SliceOf(SliceOf(TUint8)), CSlice(<<2>>, 1),
       << B123, CArr(<< CSlice(<<1>>, 3) >>) >>, 0),
    In("bytes.named", TBytes, CSlice(<<1>>, 3), << B123 >>, 0),
    In("bytes.array", ArrayOf(3, TUint8), B123, << >>, 0),
    In("bytes.inany", SliceOf(anyType), CSlice(<<2>>, 1),
       << B123, CArr(<< CIface(SliceOf(TUint8), CSlice(<<1>>, 3)) >>) >>, 0),
    In("bytes.nil", SliceOf(TUint8), NilSlice, << >>, 0) }

\* ---- empty collections, alone and nested ----
EmptyInputs ==
  { In("empty.slice", SliceOf(TInt), CSlice(<<1>>, 0), << CArr(<< >>) >>, 0),
    In("empty.array", ArrayOf(0, TInt), CArr(<< >>), << >>, 0),
    In("empty.map", MapOf(TString, TInt), CMap(<<1>>), << CMapObj(<< >>) >>, 0),
    \* [][]int{{}}
    In("empty.slice.elem", SliceOf(SliceOf(TInt)), CSlice(<<1>>, 1),
       << CArr(<< CSlice(<<2>>, 0) >>), CArr(<< >>) >>, 0),
    \* []map[string]int{{}}
    In("empty.map.elem", SliceOf(MapOf(TString, TInt)), CSlice(<<1>>, 1),
       << CArr(<< CMap(<<2>>) >>), CMapObj(<< >>) >>, 0),
    \* map[string][]int{"a": {}}
    In("empty.slice.mapval", MapOf(TString, SliceOf(TInt)), CMap(<<1>>),
       << CMapObj(<< KV(CStr(<<97>>), CSlice(<<2>>, 0)) >>), CArr(<< >>) >>, 1),
    \* map[string]map[string]int{"a": {}}
    In("empty.map.mapval", MapOf(TString, MapOf(TString, TInt)), CMap(<<1>>),
       << CMapObj(<< KV(CStr(<<97>>), CMap(<<2>>)) >>), CMapObj(<< >>) >>, 1),
    \* rec{S: []int{}} and rec{M: map[string]int{}}
    RecIn("empty.slice.field", 0, NilAddr, CSlice(<<4>>, 0), NilMap, << >>),
    RecIn("empty.map.field", 0, NilAddr, NilSlice, CMap(<<3>>), << >>) }

\* ---- times ----
\* The locations a time of March day d of 2011 can carry: the UTC and Local
\* sentinels, fixed zones, and named locations loaded from the zone
\* database with the zone in effect on that day.  Europe/Paris is on CET
\* until March 27 and on CEST after it, Australia/Sydney on AEDT until
\* April 3.  Local is taken to be a zone that is on CET all year.
Locations(d) ==
  LET utc    == <<85, 84, 67>>
      cet    == <<67, 69, 84>>
      cest   == <<67, 69, 83, 84>>
      aedt   == <<65, 69, 68, 84>>
      repr   == <<82, 101, 112, 114>>
      local  == <<76, 111, 99, 97, 108>>
      paris  == <<69, 117, 114, 111, 112, 101, 47, 80, 97, 114, 105, 115>>
      sydney == <<65, 117, 115, 116, 114, 97, 108, 105, 97, 47, 83, 121, 100, 110, 101, 121>>
  IN { UTCLoc, Loc("fixed", utc, utc, 0),
       Loc("local", local, cet, 3600), Loc("fixed", cet, cet, 3600),
       Loc("fixed", cest, cest, 7200),
       IF d < 27 THEN Loc("named", paris, cet, 3600)
       ELSE Loc("named", paris, cest, 7200),
       Loc("named", sydney, aedt, 39600),
       Loc("fixed", aedt, aedt, 39600), Loc("fixed", repr, repr, 10800) }
\* []time.Time{t1, t2}: one instant in two locations with the same zone
\* (abbreviation and offset), on 2011-03-23 at 11:15:54 and at 23:00 UTC and
\* on 2011-03-31 at 23:00 UTC.
TimeInputs ==
  { In("times", SliceOf(TTime), CSlice(<<1>>, 2),
       << CArr(<< CTime(FALSE, 2011, 3, x[1][1], x[1][2], 987654, x[2]),
                  CTime(FALSE, 2011, 3, x[1][1], x[1][2], 987654, x[3]) >>) >>, 0) :
      x \in UNION { { y \in {i} \X Locations(i[1]) \X Locations(i[1]) :
                        /\ y[2].name = y[3].name /\ y[2].off = y[3].off
                        /\ y[2] # y[3] } :
                    i \in { <<23, 40554>>, <<23, 82800>>, <<31, 82800>> } } }

\* A time.Time and a *time.Time at the ends of months and years: the local
\* day is in the next month east of Greenwich and in the previous one west.
DateInputs ==
  LET east == Loc("fixed", <<67, 69, 84>>, <<67, 69, 84>>, 3600)
      west == Loc("fixed", <<69, 83, 84>>, <<69, 83, 84>>, -18000)
      none == Loc("fixed", << >>, << >>, 19800)
      \* time.FixedZone("a\t\u00e9\x7f\"", 3600)
      odd  == Loc("fixed", <<97, 9, 195, 169, 127, 34>>, <<97, 9, 195, 169, 127, 34>>, 3600)
  IN { IF x[1] THEN In("date.ptr", PtrTo(TTime), CPtr(<<1>>), << x[2] >>, 0)
       ELSE In("date", TTime, x[2], << >>, 0) :
         x \in BOOLEAN \X { CTime(FALSE, 2011, 3, 31, 82800, 0, east),
                            CTime(FALSE, 2011, 3, 1, 3600, 987654, west),
                            CTime(FALSE, 2012, 2, 28, 84600, 5000, east),
                            CTime(FALSE, 2011, 12, 31, 70000, 0, none),
                            CTime(FALSE, 2011, 3, 23, 40554, 0, odd),
                            CTime(TRUE, 1, 1, 1, 0, 0, west) } }

\* ---- internal.StructA ----
\* internal.MakeStructA(s, t), for a time t before 22:00 of its UTC day:
\* string2 is s + "2" and time2 is t.Add(2 * time.Hour).
MakeStructA(s, t) ==
  CStruct(<< CStr(s), CStr(s \o <<50>>), t,
             [t EXCEPT !.zero = FALSE, !.sod = @ + 7200] >>)
\* The struct passed by value, and a pointer to it.
StructAIn(byPtr, s, t) ==
  IF byPtr THEN In("structA.ptr", PtrTo(TStructA), CPtr(<<1>>), << MakeStructA(s, t) >>, 0)
  ELSE In("structA", TStructA, MakeStructA(s, t), << >>, 0)
\* The strings and the times (all in UTC) handed to MakeStructA.
StructAInputs ==
  { StructAIn(x[1], x[2], x[3]) :
      x \in BOOLEAN \X { << >>, <<97>> }
            \X { CTime(TRUE, 1, 1, 1, 0, 0, UTCLoc),
                 CTime(FALSE, 2011, 3, 23, 40554, 987654, UTCLoc) } }

\* ---- a struct of type leaf in every context ----
LeafC == CStruct(<< CInt(1), CStr(<<97>>) >>)
ZeroLeaf == CStruct(<< CInt(0), CStr(<< >>) >>)
BoxC(l, p, i, z) == CStruct(<< l, p, i, NilMap, z >>)
CtxIn(ctx) ==
  CASE ctx = "top"      -> In("ctx.top", TLeaf, LeafC, << >>, 0)
    [] ctx = "topptr"   -> In("ctx.topptr", PtrTo(TLeaf), CPtr(<<1>>), << LeafC >>, 0)
    [] ctx = "field"    -> In("ctx.field", TBox,
                              BoxC(LeafC, CPtr(NilAddr), CNilIface, NilSlice), << >>, 0)
    [] ctx = "fieldptr" -> In("ctx.fieldptr", TBox,
                              BoxC(ZeroLeaf, CPtr(<<1>>), CNilIface, NilSlice),
                              << LeafC >>, 0)
    [] ctx = "iface"    -> In("ctx.iface", TBox,
                              BoxC(ZeroLeaf, CPtr(NilAddr), CIface(TLeaf, LeafC), NilSlice),
                              << >>, 0)
    [] ctx = "ifaceptr" -> In("ctx.ifaceptr", TBox,
                              BoxC(ZeroLeaf, CPtr(NilAddr),
                                   CIface(PtrTo(TLeaf), CPtr(<<1>>)), NilSlice),
                              << LeafC >>, 0)
    [] ctx = "mapval"   -> In("ctx.mapval", MapOf(TString, TLeaf), CMap(<<1>>),
                              << CMapObj(<< KV(CStr(<<98>>), LeafC) >>) >>, 1)
    [] ctx = "anyelem"  -> In("ctx.anyelem", SliceOf(anyType), CSlice(<<1>>, 1),
                              << CArr(<< CIface(TLeaf, LeafC) >>) >>, 0)
    [] ctx = "anyelemptr" -> In("ctx.anyelemptr", SliceOf(anyType), CSlice(<<1>>, 1),
                              << CArr(<< CIface(PtrTo(TLeaf), CPtr(<<2>>)) >>), LeafC >>, 0)
    [] ctx = "key"      -> In("ctx.key", MapOf(TLeaf, TInt), CMap(<<1>>),
                              << CMapObj(<< KV(LeafC, CInt(5)) >>) >>, 1)
    [] ctx = "keyptr"   -> In("ctx.keyptr", MapOf(PtrTo(TLeaf), TInt), CMap(<<1>>),
                              << CMapObj(<< KV(CPtr(<<2>>), CInt(5)) >>), LeafC >>, 1)
    [] ctx = "elem"     -> In("ctx.elem", SliceOf(TLeaf), CSlice(<<1>>, 1),
                              << CArr(<< LeafC >>) >>, 0)
    [] ctx = "elemptr"  -> In("ctx.elemptr", SliceOf(PtrTo(TLeaf)), CSlice(<<1>>, 1),
                              << CArr(<< CPtr(<<2>>) >>), LeafC >>, 0)
    [] ctx = "arrelem"  -> In("ctx.arrelem", ArrayOf(1, TLeaf), CArr(<< LeafC >>), << >>, 0)
    [] ctx = "elemfield" -> In("ctx.elemfield", TBox,
                              BoxC(ZeroLeaf, CPtr(NilAddr), CNilIface, CSlice(<<1>>, 1)),
                              << CArr(<< LeafC >>) >>, 0)
\* Contexts in which a struct stands directly as, or is pointed to by, an
\* element of a slice or array or a key of a map.
CompactCtx == {"key", "keyptr", "elem", "elemptr", "arrelem", "elemfield"}
\* The other contexts: top level, struct field, map value, interface.
TypedCtx == {"top", "topptr", "field", "fieldptr", "iface", "ifaceptr", "mapval",
             "anyelem", "anyelemptr"}
\* Contexts in which the struct is reached through a pointer.
CtxInputs == { CtxIn(ctx) : ctx \in CompactCtx \cup TypedCtx }

\* ---- values with a String method ----
\* Enum(1), durations of 0, 150ns, 1.5\u00b5s, 2ms, 1.5s and 1m30s, []any
\* with both kinds, map[Enum]int, and map[time.Time]int with two instants
\* of one UTC day whose order by String() is the order of their local days,
\* in a zone with an abbreviation and in one without.
MethodInputs ==
  LET dur(secs, cs) == CInt64(secs * 10000000 + cs * 100000, 0)
      east == Loc("fixed", <<67, 69, 84>>, <<67, 69, 84>>, 3600)
      bare == Loc("fixed", << >>, << >>, 3600)
      \* time.FixedZone("", -30) and time.FixedZone(",", 0)
      west == Loc("fixed", << >>, << >>, -30)
      comma == Loc("fixed", <<44>>, <<44>>, 0)
  IN { In("enum", TEnum, CInt(1), << >>, 0),
       In("enum.elem", SliceOf(anyType), CSlice(<<1>>, 2),
          << CArr(<< CIface(TEnum, CInt(1)), CIface(TDuration, dur(1, 50)) >>) >>, 0),
       In("enum.key", MapOf(TEnum, TInt), CMap(<<1>>),
          << CMapObj(<< KV(CInt(2), CInt(1)), KV(CInt(1), CInt(2)) >>) >>, 2),
       In("time.key", MapOf(TTime, TInt), CMap(<<1>>),
          << CMapObj(<< KV(CTime(FALSE, 2011, 3, 23, 82800, 0, east), CInt(1)),
                        KV(CTime(FALSE, 2011, 3, 23, 84600, 0, UTCLoc), CInt(2)) >>) >>, 2),
       In("time.key", MapOf(TTime, TInt), CMap(<<1>>),
          << CMapObj(<< KV(CTime(FALSE, 2011, 3, 23, 82800, 0, bare), CInt(1)),
                        KV(CTime(FALSE, 2011, 3, 23, 84600, 0, UTCLoc), CInt(2)) >>) >>, 2),
       \* 23:30:00 in both zones: the keys differ in the zone only
       In("time.key", MapOf(TTime, TInt), CMap(<<1>>),
          << CMapObj(<< KV(CTime(FALSE, 2011, 3, 23, 84600, 0, comma), CInt(1)),
                        KV(CTime(FALSE, 2011, 3, 23, 84630, 0, west), CInt(2)) >>) >>, 2) }
     \cup { In("duration", TDuration, d, << >>, 0) :
              d \in { dur(0, 0), CInt64(1, 50), CInt64(15, 0), CInt64(20000, 0),
                      dur(1, 50), dur(90, 0) } }

\* ---- channels, functions, and values held as one pointer word ----
\* make(chan int, 1), a nil <-chan string, make(chan (<-chan int)) and
\* []*chan (<-chan int){nil}; a func(int, any) (string, error), a nil
\* func(), a func(int, ...string), []*func(int, ...string){nil} and a value
\* of type F, type F func(int);
\* a := [1]map[string]any{m}; m["a"] = a;
\* b := &box{}; b.I = [1]*box{b};
\* m := map[string]box{}; m["a"] = box{I: []map[string]box{m}};
\* []map[any]int{m, m} with m = map[any]int{1: 1, "1": 2}.
WordInputs ==
  LET arr == ArrayOf(1, MapOf(TString, anyType))
      TError == [kind |-> "interface", name |-> "error"]
      chans == ChanOf("chan", ChanOf("<-chan", TInt))
      dots == [FuncOf(<<TInt, SliceOf(TString)>>, << >>) EXCEPT !.variadic = TRUE]
      code == [c |-> "func", at |-> <<1>>]
  IN { In("chan", ChanOf("chan", TInt), [c |-> "chan", at |-> <<1>>],
          << [c |-> "chanobj", cap |-> 1] >>, 0),
       In("chan", ChanOf("<-chan", TString), [c |-> "chan", at |-> NilAddr], << >>, 0),
       In("func", FuncOf(<<TInt, anyType>>, <<TString, TError>>),
          [c |-> "func", at |-> <<1>>], << [c |-> "code"] >>, 0),
       In("func", FuncOf(<< >>, << >>), [c |-> "func", at |-> NilAddr], << >>, 0),
       In("chan", chans, [c |-> "chan", at |-> <<1>>], << [c |-> "chanobj", cap |-> 0] >>, 0),
       In("chan.elem", SliceOf(PtrTo(chans)), CSlice(<<1>>, 1),
          << CArr(<< CPtr(NilAddr) >>) >>, 0),
       In("func", dots, code, << [c |-> "code"] >>, 0),
       In("func.elem", SliceOf(PtrTo(dots)), CSlice(<<1>>, 1),
          << CArr(<< CPtr(NilAddr) >>) >>, 0),
       In("func", [FuncOf(<<TInt>>, << >>) EXCEPT !.name = "repr.F", !.short = "F"], code,
          << [c |-> "code"] >>, 0),
       In("word.array", arr, CArr(<< CMap(<<1>>) >>),
          << CMapObj(<< KV(CStr(<<97>>), CIface(arr, CArr(<< CMap(<<1>>) >>))) >>) >>, 1),
       In("word.box", PtrTo(TBox), CPtr(<<1>>),
          << BoxC(ZeroLeaf, CPtr(NilAddr),
                  CIface(ArrayOf(1, PtrTo(TBox)), CArr(<< CPtr(<<1>>) >>)),
                  NilSlice) >>, 0),
       In("word.copy", MapOf(TString, TBox), CMap(<<1>>),
          << CMapObj(<< KV(CStr(<<97>>),
                           BoxC(ZeroLeaf, CPtr(NilAddr),
                                CIface(SliceOf(MapOf(TString, TBox)), CSlice(<<2>>, 1)),
                                NilSlice)) >>),
             CArr(<< CMap(<<1>>) >>) >>, 1),
       [In("word.maps", SliceOf(MapOf(anyType, TInt)), CSlice(<<2>>, 2),
           << CMapObj(<< KV(CIface(TInt, CInt(1)), CInt(1)),
                         KV(CIface(TString, CStr(<<49>>)), CInt(2)) >>),
              CArr(<< CMap(<<1>>), CMap(<<1>>) >>) >>, 2) EXCEPT !.calls = 2] }

\* Every input of the model.
Inputs ==
  MapInputs \cup DataInputs \cup RecInputs \cup PtrInputs \cup ByteInputs
  \cup EmptyInputs \cup TimeInputs \cup DateInputs \cup CtxInputs
  \cup MethodInputs \cup WordInputs

(***************************************************************************)
(* Entry points.                                                           *)
(***************************************************************************)
\* One round of the loop of Printer.Print for the value boxed in h:
\* p.reprValue(map[reflect.Value]bool{}, reflect.ValueOf(v), "", true, false)
PrintValue(p, h, ords, st) ==
  reprValue([p |-> p, h |-> h, ords |-> ords], [st EXCEPT !.seen = {}],
            ValueOf(h), "", TRUE, FALSE, 1)

RECURSIVE PrintLoop(_, _, _, _, _, _)
\* Printer.Print(vs...) and Printer.Println(vs...) from the i-th value on:
\* both run the same loop, a space between the values and each rendered
\* with a map of its own; ln says that the call is Println, which ends with
\* fmt.Fprintln(p.w).
PrintLoop(p, vs, ords, st, i, ln) ==
  IF st.err # "" THEN st
  ELSE IF i > Len(vs) THEN (IF ln THEN W(st, "\n") ELSE st)
  ELSE LET s1 == IF i > 1 THEN W(st, " ") ELSE st
       IN PrintLoop(p, vs, ords, PrintValue(p, vs[i], ords, s1), i + 1, ln)

RECURSIVE Flat(_)
\* The bytes in the sink after the writes out (w.String()).
Flat(out) == IF out = << >> THEN "" ELSE Head(out) \o Flat(Tail(out))

(***************************************************************************)
(* The program: a caller holding a value and a list of options calls       *)
(* String(v, options...) again and again.                                  *)
(***************************************************************************)
VARIABLES
  input,    \* the value v the caller passes, with its heap
  options,  \* the options the caller passes
  p,        \* the Printer built by the latest call
  w,        \* the writes made to the latest call's buffer
  results   \* what the latest two calls returned, oldest first

vars == <<input, options, p, w, results>>

\* Every option the package exports, with the arguments the callers use.
OptionPool ==
  { Indent("  "), NoIndent, OmitEmpty(FALSE), OmitEmpty(TRUE), OmitZero(FALSE),
    OmitZero(TRUE), ExplicitTypes(TRUE), ExplicitTypes(FALSE), IgnoreGoStringer,
    IgnorePrivate, ScalarLiterals, Hide(TInt), HideField("A"), AlwaysIncludeType }
\* The options that change how the inputs below are rendered.
RenderPool ==
  { Indent("  "), OmitEmpty(FALSE), OmitZero(FALSE), ExplicitTypes(TRUE),
    IgnorePrivate, AlwaysIncludeType, ScalarLiterals }
SeqsOver(pool) == UNION { [1..n -> pool] : n \in 0..MaxOpts }

\* The orders in which the runtime may enumerate a map of up to n entries.
Orders(n) == { f \in [1..n -> 1..n] : \A i, j \in 1..n : f[i] = f[j] => i = j }
\* The orders of the calls of MapKeys that a rendering of input h makes on
\* its maps of two entries or more, one order for every call.
OrdersOf(h) == [1..h.calls -> Orders(h.nmap)]


\* Each option of RenderPool sets a field of its own in the Printer, so the
\* Printer that New builds depends on which of them the caller gives and
\* not on their order or on how often one is given: the caller's lists are
\* taken with the options in the order of the fields of Printer.  SpecNew
\* runs the lists of all the options in every order.
Init ==
  /\ input \in Inputs
  /\ options \in
       { s \in SeqsOver(RenderPool) :
           LET fields == << "Indent", "OmitEmpty", "OmitZero", "IgnorePrivate",
                            "AlwaysIncludeType", "ExplicitTypes", "ScalarLiterals" >>
               rank(o) == CHOOSE k \in 1..Len(fields) : fields[k] = o.op
           IN \A i, j \in 1..Len(s) : i < j => rank(s[i]) < rank(s[j]) }
  /\ p = NewPrinter
  /\ w = << >>
  /\ results = << >>

\* What a call that built the Printer pr and ended in the state st leaves:
\* the Printer, the writes, and what it hands back, the text or the way it
\* died, kept with the result of the call before it.
Returned(pr, st) ==
  /\ p' = pr
  /\ w' = st.out
  /\ results' =
       LET r == [err |-> st.err, text |-> IF st.err = "" THEN Flat(st.out) ELSE ""]
       IN IF Len(results) < 2 THEN Append(results, r) ELSE <<results[2], r>>
  /\ UNCHANGED <<input, options>>

\* String(v, options...): NoIndent is put in front of the caller's options,
\* New builds the Printer, Print renders v into a fresh buffer.
StringCall ==
  \E ords \in OrdersOf(input) :
    Returned(New(<<NoIndent>> \o options),
             PrintValue(New(<<NoIndent>> \o options), input, ords, St0))

Next == StringCall

\* Rendering: every input under every choice of a few rendering options.
\* Hide and HideField act on the inputs of SpecNew.
Spec == Init /\ [][Next]_vars

\* Construction of the Printer: every short list of options of the package,
\* with the inputs of one family.
InitNew ==
  /\ input \in CtxInputs
  /\ options \in SeqsOver(OptionPool)
  /\ p = NewPrinter
  /\ w = << >>
  /\ results = << >>
SpecNew == InitNew /\ [][Next]_vars

\* Structs with unexported fields, under every short list of the options
\* that decide what becomes of a field.
PrivatePool ==
  { Indent("  "), OmitZero(FALSE), OmitEmpty(FALSE), IgnorePrivate,
    IgnoreGoStringer, Hide(TTime), HideField("time2"), ScalarLiterals }
InitPrivate ==
  /\ input \in StructAInputs \cup DateInputs
  /\ options \in SeqsOver(PrivatePool)
  /\ p = NewPrinter
  /\ w = << >>
  /\ results = << >>
SpecPrivate == InitPrivate /\ [][Next]_vars

\* Printer.Print and Printer.Println: a Printer built by New with the
\* caller's options, and a list of values the caller prints with it, call
\* after call, into the same writer.  The package functions Print and
\* Println do the same with a Printer of their own on os.Stdout.
PrinterValues == { SelfLoop, LoopByValue, SharedChild, PtrAt("top", CPtr(<<1>>)) }
PrinterOptions ==
  { << >>, <<NoIndent>>, <<IgnorePrivate>>, <<NoIndent, IgnorePrivate>> }
ValueLists == UNION { [1..n -> PrinterValues] : n \in 0..MaxVals }

\* What a call on the Printer did: how it ended, the writes it added and
\* their bytes, the map `seen` of its last value as the call left it, and
\* what was observed of the traversals on the way.
Outcome(call, vs, before, st) ==
  [err |-> st.err, call |-> call, n |-> Len(vs),
   writes |-> SubSeq(st.out, Len(before) + 1, Len(st.out)),
   text |-> Flat(SubSeq(st.out, Len(before) + 1, Len(st.out))),
   seen |-> st.seen, log |-> st.log]
\* The writer and the record of the calls after a call that ended in st.
Wrote(call, st) ==
  /\ w' = st.out
  /\ results' = Append(results, Outcome(call, input, w, st))

InitPrinter ==
  /\ input \in ValueLists
  /\ options \in PrinterOptions
  /\ p = New(options)
  /\ w = << >>
  /\ results = << >>

\* p.Print(vs...) or p.Println(vs...)
PrinterCall ==
  /\ Len(results) < MaxCalls
  /\ \E ln \in BOOLEAN :
       Wrote(IF ln THEN "Println" ELSE "Print",
             PrintLoop(p, input, << >>, [St0 EXCEPT !.out = w], 1, ln))
  /\ UNCHANGED <<input, options, p>>

NextPrinter == PrinterCall
SpecPrinter == InitPrinter /\ [][NextPrinter]_vars

(***************************************************************************)
(* Properties.                                                             *)
(***************************************************************************)
\* A call has returned, and the latest one did not die.
Done == results # << >>
Last == results[Len(results)]
Completed == Done /\ Last.err = ""
\* Some write to the buffer was exactly tok.
Has(tok) == \E i \in 1..Len(w) : w[i] = tok
\* The number of writes that were one of toks.
Count(toks) == Cardinality({ i \in 1..Len(w) : w[i] \in toks })
\* Some write of a was directly followed by a write of b.
Adjacent(a, b) == \E i \in 1..(Len(w) - 1) : w[i] = a /\ w[i + 1] = b

\* C1.  Determinism: two calls of String on the same value with the same
\* options return the same bytes, whatever order the runtime enumerates
\* maps in.
C1_Determinism == Len(results) = 2 => results[1] = results[2]

\* The literal of the field id of the struct data with the given id.
IdLiterals(id) == { ToString(id), "int(" \o ToString(id) \o ")" }

\* C2.  Cycle termination: rendering a value that contains a reference
\* cycle returns, the re-entry is written as "...", and the body of each
\* struct on the cycle (told apart by its id field) is written at most once.
C2_CycleBodyOnce ==
  (Done /\ input.fam = "cycle") =>
     /\ Last.err = ""
     /\ (~p.ignorePrivate => Count({"..."}) = 1)
     /\ \A id \in {1, 2} : Count(IdLiterals(id)) <= 1

\* The literals a stored scalar may be written as: bare, or wrapped in its
\* type.
Literals(c) ==
  CASE c.c = "int"   -> { ToString(c.n), "int(" \o ToString(c.n) \o ")" }
    [] c.c = "str"   -> { Quote(c.s), "string(" \o Quote(c.s) \o ")" }
    [] c.c = "iface" -> IF c.dv.c = "int"
                        THEN { ToString(c.dv.n), "int(" \o ToString(c.dv.n) \o ")" }
                        ELSE { Quote(c.dv.s), "string(" \o Quote(c.dv.s) \o ")" }
    [] OTHER         -> {}

MapFams == {"intmap", "strmap", "anymap"}
\* The entries of the map passed in, as stored.
Entries == Load(input, input.root.c.m).kv
\* Where the key of the i-th emitted entry of a top-level map is written.
KeyPos(i) == IF p.indent = "" THEN 2 + 4 * (i - 1) ELSE 4 + 5 * (i - 1)
\* The stored entry whose key is written at the i-th place.
EntryAt(i) == CHOOSE e \in 1..Len(Entries) : w[KeyPos(i)] \in Literals(Entries[e].k)
\* fmt.Sprint of the key of stored entry e.
KeyText(e) == Sprint(input, MapPart(input, ValueOf(input), e, 1, 1))

\* C3.  Map entries are written in non-decreasing order of fmt.Sprint of
\* their keys compared as strings, each as `key: value`; without
\* indentation they are joined by ", " and nothing follows the last one.
C3_MapOrder ==
  (Completed /\ input.fam \in MapFams) =>
    LET n == Len(Entries) IN
    /\ Len(w) = IF n = 0 THEN 2 ELSE IF p.indent = "" THEN 4 * n + 1 ELSE 5 * n + 3
    /\ \A i \in 1..n :
         \E e \in 1..n : /\ w[KeyPos(i)] \in Literals(Entries[e].k)
                         /\ w[KeyPos(i) + 1] = ": "
                         /\ w[KeyPos(i) + 2] \in Literals(Entries[e].v)
    /\ \A i, j \in 1..n :
         i < j => /\ EntryAt(i) # EntryAt(j)
                  /\ ~LessBytes(KeyText(EntryAt(j)), KeyText(EntryAt(i)))
    /\ p.indent = "" => /\ \A i \in 1..(n - 1) : w[KeyPos(i) + 3] = ", "
                        /\ w[Len(w)] = "}"

\* map[int]string{1: "a", 9: "b", 10: "c"} came out with 10 before 9.
C3_Witness ==
  /\ Completed
  /\ input = IntMapIn({1, 9, 10})
  /\ Last.text = "map[int]string{1: \"a\", 10: \"c\", 9: \"b\"}"

\* The fields of the struct passed in, and the write that introduces each.
FieldCount == Len(StructFields(input.root.typ.name))
RecField(i) == input.root.c.f[i]
FieldTok(i) == StructFields(input.root.typ.name)[i].name \o ": "
\* A zero scalar, a nil pointer, slice or map, or a zero-length slice or map.
ZeroOrEmpty(c) ==
  CASE c.c = "int"   -> c.n = 0
    [] c.c = "str"   -> c.s = << >>
    [] c.c = "ptr"   -> c.to = NilAddr
    [] c.c = "slice" -> c.len = 0
    [] c.c = "map"   -> c.m = NilAddr \/ Len(Load(input, c.m).kv) = 0
    [] OTHER         -> FALSE
Emitted == { i \in 1..FieldCount : Has(FieldTok(i)) }

\* C4.  With omit-zero and omit-empty on and indentation off, the rendering
\* of a struct returns, a field that holds a zero scalar, a nil pointer,
\* slice or map, or a zero-length slice or map is not written and every
\* other field is, ", " is written only between two written fields (and
\* between the elements of a written slice), never before the closing
\* brace, and a struct with every field omitted is written as `Type{}`.
\* The structs are rec, with fields of type int, *int, []int,
\* map[string]int and string, and stamp, with an int and a *time.Time.
C4_ZeroEmptyOmitted ==
  (Done /\ input.fam \in {"rec", "stamp"} /\ p.omitZero /\ p.omitEmpty /\ p.indent = "") =>
    /\ Last.err = ""
    /\ \A i \in 1..FieldCount : ZeroOrEmpty(RecField(i)) <=> i \notin Emitted
    /\ w[1] = TypeString(input.root.typ) \o "{" /\ w[Len(w)] = "}"
    /\ \A i \in 1..Len(w) :
         w[i] = ", " =>
           /\ i > 2 /\ i < Len(w) - 1
           /\ \/ w[i + 1] \in { FieldTok(k) : k \in Emitted }
              \/ /\ input.fam = "rec"
                 /\ w[i - 1] \in Literals(CInt(1)) /\ w[i + 1] \in Literals(CInt(2))
    /\ Count({", "}) = (IF Emitted = {} THEN 0 ELSE Cardinality(Emitted) - 1)
                       + (IF input.fam = "rec" /\ 3 \in Emitted THEN 1 ELSE 0)
    /\ (\A i \in 1..FieldCount : ZeroOrEmpty(RecField(i))) =>
         w = << TypeString(input.root.typ) \o "{", "}" >>

PtrFams == { "ptr." \o pos : pos \in PtrPositions }
\* The pointer of the input is the nil *int.
PtrIsNil == input \in { PtrAt(pos, CPtr(NilAddr)) : pos \in PtrPositions }

\* C5.  Under the default options a non-nil pointer to the int 13 is written
\* as "&" directly followed by "13" at top level, in a struct field, as a
\* map value, as a slice or array element and as a map key; a nil pointer
\* is written without "&", as "nil" wherever it is written at all.
C5_PointerEverywhere ==
  (Completed /\ input.fam \in PtrFams /\ options = << >>) =>
    IF PtrIsNil
    THEN ~Has("&") /\ ~Has("13") /\ (input.fam # "ptr.field" => Has("nil"))
    ELSE Adjacent("&", "13") /\ ~Has("nil")

ByteFams == {"bytes.slice", "bytes.named", "bytes.array", "bytes.inany", "bytes.elem"}
\* The bytes of the sequence of the input, and their text literal.
InputBytes ==
  IF input.fam = "bytes.array" THEN [i \in 1..3 |-> input.root.c.e[i].n]
  ELSE LET arr == Load(input, <<1>>).e IN [i \in 1..Len(arr) |-> arr[i].n]
ByteLit == "[]byte(" \o Quote(InputBytes) \o ")"
\* The writes of the elements of a bracketed list of bytes.
ByteElems ==
  UNION { { ToString(n), "uint8(" \o ToString(n) \o ")",
            "0x" \o HexText(n), "uint8(0x" \o HexText(n) \o ")" } : n \in 0..255 }

\* C6.  Every non-nil sequence of bytes, be it a []byte at top level, held
\* in an interface or as an element, a named slice type over byte or a
\* byte array, is written as one []byte("...") literal and never as a
\* bracketed list of its elements.
C6_AllByteSequences ==
  (Completed /\ input.fam \in ByteFams) => Has(ByteLit) /\ Count(ByteElems) = 0

EmptyFams ==
  { "empty.slice", "empty.array", "empty.map", "empty.slice.elem", "empty.map.elem",
    "empty.slice.mapval", "empty.map.mapval", "empty.slice.field", "empty.map.field" }
\* The writes that open the zero-length collections of the inputs.
EmptyOpens == { "[]int{", "[0]int{", "map[string]int{" }

\* C7.  Each zero-length slice, array or map is written as its type literal
\* and "{" directly followed by a write of just "}", at every depth and
\* with indentation on or off.
C7_EmptyShape ==
  (Completed /\ input.fam \in EmptyFams) =>
    \A i \in 1..Len(w) : w[i] \in EmptyOpens => (i < Len(w) /\ w[i + 1] = "}")

\* The locations of the two times of the input, and the writes of the two.
TimeLoc(k) == Load(input, <<1>>).e[k].loc
TimeTok(k) == IF p.indent = "" THEN w[2 * k] ELSE w[3 * k + 1]

\* C8.  Two times for one instant whose zones have the same
\* abbreviation and offset are written as the same literal, whichever
\* representation of the zone they carry.
C8_SameZoneSameText ==
  (Completed /\ input.fam = "times") => TimeTok(1) = TimeTok(2)

\* The context the leaf of the input stands in.
CtxFams == { "ctx." \o ctx : ctx \in CompactCtx \cup TypedCtx }
CtxOf == CHOOSE ctx \in CompactCtx \cup TypedCtx : input.fam = "ctx." \o ctx
\* Where the field A of the leaf {A: 1, b: "a"} is written, where the leaf
\* is opened, and whether "&" is written right before it.
LeafFieldToks == { "A: ", "  A: ", "    A: ", "      A: " }
LeafAt == CHOOSE i \in 2..(Len(w) - 1) : w[i] \in LeafFieldToks /\ w[i + 1] \in Literals(CInt(1))
OpenAt == IF p.indent = "" THEN LeafAt - 1 ELSE LeafAt - 2
\* The contexts in which the leaf is reached through a pointer.
PtrCtxs == {"topptr", "fieldptr", "ifaceptr", "anyelemptr", "keyptr", "elemptr"}
Amp == OpenAt > 1 /\ w[OpenAt - 1] = "&"

\* C9.  With ExplicitTypes and AlwaysIncludeType off, a struct that is an
\* element of a slice or array or a key of a map, or is pointed to by one,
\* opens with a bare "{" and no "&"; a struct at top level, in a struct
\* field, as a map value or held in an interface opens with its type name,
\* behind "&" exactly when it is reached through a pointer.  With either
\* option on, every struct opens with its type name, behind "&" exactly
\* when reached through a pointer.
C9_StructTypeName ==
  (Completed /\ input.fam \in CtxFams) =>
    LET explicit == p.explicitTypes \/ p.alwaysIncludeType IN
    /\ \E i \in 2..(Len(w) - 1) : w[i] \in LeafFieldToks /\ w[i + 1] \in Literals(CInt(1))
    /\ OpenAt >= 1
    /\ (~explicit /\ CtxOf \in CompactCtx) => (w[OpenAt] = "{" /\ ~Amp)
    /\ (~explicit /\ CtxOf \in TypedCtx) =>
         (w[OpenAt] = "repr.leaf{" /\ (Amp <=> CtxOf \in PtrCtxs))
    /\ explicit => (w[OpenAt] = "repr.leaf{" /\ (Amp <=> CtxOf \in PtrCtxs))

\* []*leaf{{A: 1, b: "a"}} came out compact, and with ExplicitTypes in full.
C9_Witness ==
  /\ Completed
  /\ input = CtxIn("elemptr")
  /\ \/ options = << >> /\ Last.text = "[]*repr.leaf{{A: 1, b: \"a\"}}"
     \/ options = <<ExplicitTypes(TRUE)>>
        /\ Last.text = "[]*repr.leaf{&repr.leaf{A: 1, b: \"a\"}}"

\* The last option of opts that is the option op, if there is one.
Targets(opts, op) == { i \in 1..Len(opts) : opts[i].op = op }
LastOf(opts, op) == opts[CHOOSE i \in Targets(opts, op) : \A j \in Targets(opts, op) : j <= i]
\* The printer in which every setting has the value given by the last
\* option of opts that targets it, or its default.
LastWins(opts) ==
  [indent |-> IF Targets(opts, "Indent") = {} THEN "  " ELSE LastOf(opts, "Indent").s,
   omitEmpty |-> IF Targets(opts, "OmitEmpty") = {} THEN TRUE ELSE LastOf(opts, "OmitEmpty").b,
   omitZero |-> IF Targets(opts, "OmitZero") = {} THEN TRUE ELSE LastOf(opts, "OmitZero").b,
   explicitTypes |-> IF Targets(opts, "ExplicitTypes") = {} THEN FALSE
                     ELSE LastOf(opts, "ExplicitTypes").b,
   ignoreGoStringer |-> Targets(opts, "IgnoreGoStringer") # {},
   ignorePrivate |-> Targets(opts, "IgnorePrivate") # {},
   alwaysIncludeType |-> Targets(opts, "AlwaysIncludeType") # {},
   useLiterals |-> Targets(opts, "ScalarLiterals") # {},
   exclude |-> { opts[i].t : i \in Targets(opts, "Hide") },
   excludeFields |-> { opts[i].s : i \in Targets(opts, "HideField") }]

\* C10.  After String has applied NoIndent and then the caller's options in
\* order, every setting of the Printer holds the value given by the last
\* option that targets it, or its default if none does.
C10_LastAppliedWins == Done => p = LastWins(<<NoIndent>> \o options)

\* The types whose literals open with their name in the renderings of the
\* inputs, and the writes that open a composite.
BaseTypes == { TInt, TString, TUint8, anyType, TTime, TData, TLeaf, TRec, TBox }
\* The key types K of the inputs of type map[*map[K]int]int.
InnerKeyTypes ==
  { TInt, TInt64, PtrTo(TInt), ChanOf("chan", TInt), TLeaf, ArrayOf(2, TInt64), anyType,
    TTime }
KeyTypes ==
  { TInt, TString, anyType, TLeaf, TEnum, TTime, PtrTo(TLeaf), PtrTo(TInt), PtrTo(TData) }
ElemTypes ==
  BaseTypes \cup { PtrTo(t) : t \in BaseTypes } \cup { SliceOf(t) : t \in BaseTypes }
  \cup { MapOf(k, t) : k \in KeyTypes, t \in BaseTypes }
CompositeTypes ==
  { StructT(nm) : nm \in {"repr.data", "repr.leaf", "repr.rec", "repr.box", "repr.stamp"} }
  \cup { MapOf(k, TInt) : k \in InnerKeyTypes }
  \cup { MapOf(PtrTo(MapOf(k, TInt)), TInt) : k \in InnerKeyTypes }
  \cup { ArrayOf(2, TInt64), SliceOf(PtrTo(ChanOf("chan", ChanOf("<-chan", TInt)))),
         SliceOf(PtrTo([FuncOf(<<TInt, SliceOf(TString)>>, << >>) EXCEPT !.variadic = TRUE])) }
  \cup { SliceOf(t) : t \in ElemTypes } \cup { ArrayOf(n, t) : n \in 0..3, t \in ElemTypes }
  \cup { MapOf(k, t) : k \in KeyTypes, t \in ElemTypes }
OpenToks == { "{" } \cup { substAny(t) \o "{" : t \in CompositeTypes }
FieldNames == { "id", "parent", "children", "A", "b", "P", "S", "M", "B", "L", "I", "Z", "T" }

RECURSIVE Spaces(_)
\* n spaces.
Spaces(n) == IF n = 0 THEN "" ELSE " " \o Spaces(n - 1)
MaxSpaces == 12
\* The write closes a composite / starts the line of an element, entry or
\* field; LeadOf is the number of spaces such a write starts with.
CloseToks == [n \in 0..MaxSpaces |-> Spaces(n) \o "}"]
LineStartToks ==
  [n \in 0..MaxSpaces |->
     { Spaces(n) } \cup { Spaces(n) \o f \o ": " : f \in FieldNames }]
IsClose(tok) == \E n \in 0..MaxSpaces : tok = CloseToks[n]
IsLineStart(tok) == \E n \in 1..MaxSpaces : tok \in LineStartToks[n]
LeadOf(tok) ==
  CHOOSE n \in 0..MaxSpaces : tok = CloseToks[n] \/ tok \in LineStartToks[n]

\* The width of the indent string of the printer.
IndentWidth == CHOOSE n \in 0..MaxSpaces : CloseToks[n] = p.indent \o "}"

RECURSIVE Aligned(_, _)
\* The writes from the i-th on are aligned, d composites being open: a line
\* of an element, entry or field starts right after a newline with d
\* indents, ends with ",\n", and the brace closing a composite that has
\* lines has d - 1 indents.
Aligned(i, d) ==
  IF i > Len(w) THEN d = 0
  ELSE LET tok == w[i] IN
    IF tok \in OpenToks THEN Aligned(i + 1, d + 1)
    ELSE IF IsClose(tok)
    THEN /\ d >= 1
         /\ \/ w[i - 1] \in OpenToks
            \/ (LeadOf(tok) = (d - 1) * IndentWidth /\ w[i - 1] \in {",\n", "\n"})
         /\ Aligned(i + 1, d - 1)
    ELSE IF IsLineStart(tok)
    THEN /\ LeadOf(tok) = d * IndentWidth
         /\ w[i - 1] \in {",\n", "\n"}
         /\ Aligned(i + 1, d)
    ELSE IF tok \in {",\n", "\n"}
    THEN /\ i < Len(w)
         /\ (tok = "\n" => w[i - 1] \in OpenToks)
         /\ (IsLineStart(w[i + 1]) \/ IsClose(w[i + 1]))
         /\ Aligned(i + 1, d)
    ELSE tok # ", " /\ Aligned(i + 1, d)

\* C11.  With a non-empty indent string and IgnorePrivate off, every
\* element, map entry and struct field of a composite nested in d others is
\* written on a line of its own that starts with d + 1 copies of the indent
\* string and ends with "," and a newline, and the closing brace of a
\* composite that has such lines starts with d copies of it.
C11_IndentAlignment ==
  (Completed /\ p.indent # "" /\ ~p.ignorePrivate) => Aligned(1, 0)

\* box{Z: []leaf{{A: 1, b: "a"}}} came out on seven aligned lines.
C11_Witness ==
  /\ Completed
  /\ input = CtxIn("elemfield")
  /\ options = <<Indent("  ")>>
  /\ Last.text = "repr.box{\n  Z: []repr.leaf{\n    {\n      A: 1,\n      b: \"a\",\n    },\n  },\n}"

\* C12.  A call of Println with n values and no indentation writes n
\* lines, the representation of one value on each: n newlines, and no
\* space between two values.
C12_PrintlnLines ==
  (Done /\ Last.call = "Println" /\ Last.err = "" /\ Last.n >= 1 /\ p.indent = "") =>
    /\ Cardinality({ i \in 1..Len(Last.writes) : Last.writes[i] = "\n" }) = Last.n
    /\ \A i \in 1..Len(Last.writes) : Last.writes[i] # " "

\* The values in a sequence, and whether none occurs twice in it.
Range(q) == { q[i] : i \in 1..Len(q) }
NoRepeat(q) == \A i, j \in 1..Len(q) : q[i] = q[j] => i = j

\* C13.  At every entry to and return from reprValue the map seen holds
\* exactly the values of the active calls, each once; it is empty when a
\* call of Print or Println returns; and a value that occurs twice side by
\* side (the same pointer twice in one slice) is written in full both
\* times, never as "...".
C13_SeenIsActivePath ==
  Done =>
    /\ \A k \in 1..Len(Last.log) :
         /\ Last.log[k].seen = Range(Last.log[k].stack)
         /\ NoRepeat(Last.log[k].stack)
    /\ Last.seen = {}
    /\ (Last.err = "" /\ Last.n >= 1 /\ ~p.ignorePrivate
        /\ \A i \in 1..Len(input) : input[i] = SharedChild) =>
         /\ \A i \in 1..Len(Last.writes) : Last.writes[i] # "..."
         /\ Cardinality({ i \in 1..Len(Last.writes) : Last.writes[i] = "2" }) = 2 * Last.n

\* Println(shared, loop): the child shared by two slots came out twice in
\* full, the loop after it with its placeholder, and seen ended empty.
C13_Witness ==
  /\ Done
  /\ input = <<SharedChild, SelfLoop>>
  /\ options = <<NoIndent>>
  /\ Last.seen = {}
  /\ Len(Last.log) > 0
  /\ Last.text = "&repr.data{id: 1, children: []*repr.data{{id: 2}, {id: 2}}} &repr.data{id: 1, parent: &...}\n"


\* C14.  Rendering a struct that has unexported fields returns with its
\* output and does not panic, whatever the options, the default omit-zero
\* test on an unexported field whose type has an IsZero method included.
C14_NoPanic ==
  (Done /\ input.fam \in {"structA", "structA.ptr"}) => Last.err = ""

\* The writes that open a field of the struct rec at the first level of
\* indentation.
IndentedFieldToks == { p.indent \o FieldTok(i) : i \in 1..5 }

\* C15.  With IgnorePrivate and indentation on, "," and a newline are
\* written after a written field of a struct exactly when a later field of
\* the struct is written too: before every written field but the first, and
\* not before the closing brace.
C15_SeparatorLookAhead ==
  (Completed /\ input.fam = "rec" /\ p.ignorePrivate /\ p.indent # "") =>
    /\ \A i \in 4..Len(w) : w[i] \in IndentedFieldToks => w[i - 1] = ",\n"
    /\ Len(w) > 3 => w[Len(w) - 1] # ",\n"

=============================================================================
